---- MODULE Spec2Model ----
(***************************************************************************)
(* Model of Ozernoy/telegram_view: the Tester and Showcase bot interfaces  *)
(* (interfaces/telegram_tester_bot.py, interfaces/showcase_interface.py),  *)
(* the View of view.py, the message catalog of messages.py and the         *)
(* StateManager of state.py.                                               *)
(*                                                                         *)
(* Every inbound update is handled by its own coroutine (run() starts      *)
(* Dispatcher.start_polling with its defaults, under which every update is *)
(* handled as a task of its own). A handler runs without interruption      *)
(* between two awaits of real I/O and may be suspended at each of them:    *)
(* the typing indicator, the attachment fetch, the orchestrator callback   *)
(* and every message send. One action of the model is one such segment.    *)
(* In Spec the platform's sends and the typing indicator succeed; in       *)
(* FaultSpec they may also raise.                                          *)
(***************************************************************************)
EXTENDS Naturals, Sequences, FiniteSets

VARIABLES
    iface,                  \* which class the process runs: "tester", "showcase", "view"
    show_model_selector,    \* TesterBotInterface.show_model_selector
    chat_history,           \* self.chat_history: one list per interface object
    reporting_users,        \* TesterBotInterface.reporting_users
    user_model_preferences, \* TesterBotInterface.user_model_preferences
    user_states,            \* View.user_states
    db,                     \* the users table of View (user_id -> business_description)
    issues_table,           \* the rows of the issues worksheet (tester_utils.py)
    tasks,                  \* the handler coroutines, in order of arrival: the suspended
                            \* ones, and the one that has just returned (pc = "done")
    nEvents,                \* number of updates received so far
    state_manager,          \* a StateManager of state.py: its three dictionaries
    sm_calls                \* the calls made on the StateManager, in order

vars == <<iface, show_model_selector, chat_history, reporting_users,
          user_model_preferences, user_states, db, issues_table, tasks, nEvents,
          state_manager, sm_calls>>

\* ---------------------------------------------------------------- bounds
MaxEvents == 2
MaxInFlight == 2
\* the Issue Reporter alone: entries of a transcript, reports of a run
MaxTranscript == 3
MaxReports == 2
\* the StateManager alone: calls of a run
MaxCalls == 4

\* ---------------------------------------------------------------- inputs
Users == {"ua", "ub"}
None == "None"
Models == {"m1"}

\* message.from_user.language_code of each user (None for ub)
LanguageCodeOf(u) == IF u = "ua" THEN "ru" ELSE None

START_NEW_CHAT == "Start New Chat"
REPORT_ISSUE == "Report Issue"
SELECT_MODEL == "Select Model"
Texts == {"hi", START_NEW_CHAT, REPORT_ISSUE, SELECT_MODEL}

AttachmentKinds == {"photo", "document", "audio"}
\* file_utils.py: the allow-list, and the MIME types the model sends
SUPPORTED_DOCUMENT_MIMES ==
    {"application/pdf", "application/msword",
     "application/vnd.openxmlformats-officedocument.wordprocessingml.document", "text/plain"}
Mimes == {"application/pdf", "image/gif"}

\* The updates of the model. ua sends every kind of update; ub, the second
\* user, sends ordinary text, the report-issue text, /start and a model selection.
\* The flag show_model_selector is read for the keyboard, for the welcome
\* title and for the match of the select-model text, never in the handling
\* of an attachment or of delete_all_history: the Tester with the selector
\* enabled receives every update, the Tester with the selector disabled the
\* texts, /start and the model selections.
TextsOf(u) == IF u = "ua" THEN Texts ELSE {"hi", REPORT_ISSUE}
Uploaders == IF iface = "tester" /\ ~show_model_selector THEN {} ELSE {"ua"}
ViewTexts == {"hi", "we sell coffee"}

\* ---------------------------------------------------------------- messages.py
MESSAGES ==
    [lang \in {"en", "ru", "he"} |-> {"welcome", "description_accepted", "error"}]

language_mapping(code) ==
    IF code = "ru" THEN "ru" ELSE IF code \in {"he", "iw"} THEN "he" ELSE "en"

\* a text shown to or written by a user: a catalog text has a language, the
\* welcome title of the Tester names a model
Msg(key) == [key |-> key, lang |-> "-", arg |-> "-"]
Loc(key, lang) == [key |-> key, lang |-> lang, arg |-> "-"]
KeyError == Msg("KeyError")

\* get_message: the text of the mapped language, else the English text, else KeyError
get_message(key, code) ==
    LET lang == language_mapping(code)
    IN  IF key \in MESSAGES[lang] THEN Loc(key, lang)
        ELSE IF key \in MESSAGES["en"] THEN Loc(key, "en")
        ELSE KeyError

\* language_code = message.from_user.language_code or "en"
language_code(u) == IF LanguageCodeOf(u) = None THEN "en" ELSE LanguageCodeOf(u)

\* ---------------------------------------------------------------- helpers
\* chat_history entry; uid records whose update produced the entry (the code
\* stores only type and message)
Entry(type, message, u) == [type |-> type, message |-> message, uid |-> u]

NewTask(u, kind, text, caption, arg) ==
    [user |-> u, kind |-> kind, text |-> text, caption |-> caption, arg |-> arg,
     pc |-> "new", out |-> Msg("-"), calls |-> <<>>, msgs |-> <<>>, cb |-> "none",
     reports |-> <<>>, sink |-> "none", fetch |-> "none",
     failed |-> <<>>, raised |-> "none"]

\* the suspended handlers: a handler that has returned is kept for one step
\* only, so that the state in which it returned can be examined
Live(s) == SelectSeq(s, LAMBDA t : t.pc # "done")
Suspended(i) == i \in DOMAIN tasks /\ tasks[i].pc # "done"

CanReceive == nEvents < MaxEvents /\ Len(Live(tasks)) < MaxInFlight

\* a new update: its handler has run up to its first await
Spawn(t) ==
    /\ nEvents' = nEvents + 1
    /\ tasks' = Append(Live(tasks), t)

\* handler i has run up to its next await, or has returned
Resume(i, t) ==
    /\ nEvents' = nEvents
    /\ tasks' = LET before == Live(SubSeq(tasks, 1, i - 1))
                    after == Live(SubSeq(tasks, i + 1, Len(tasks)))
                IN  before \o <<t>> \o after

\* faulty variant: one selection shared by all users
get_user_model_Shared(u) ==
    IF \E b \in Users : user_model_preferences[b] # None
    THEN user_model_preferences[CHOOSE b \in Users : user_model_preferences[b] # None]
    ELSE None

\* get_user_model
get_user_model(u) == user_model_preferences[u]

\* message_data built by process_message of the Tester interface
TesterMessageData(u, message_type, data, caption) ==
    [type |-> message_type, user_id |-> u, data |-> data, caption |-> caption,
     model |-> get_user_model(u)]

\* _get_current_model_info
get_current_model_info(u) ==
    IF get_user_model(u) # None
    THEN [id |-> get_user_model(u), source |-> "user_selected"]
    ELSE [id |-> "config", source |-> "config_default"]

\* The call of the orchestrator callback made by process_message: the task is
\* suspended in the callback until CallbackReturn
process_message(t, message_type, data, caption, pc) ==
    [t EXCEPT !.calls = Append(@, TesterMessageData(t.user, message_type, data, caption)),
              !.pc = pc]

\* message.answer(m): the task is suspended in the send until SendReturn
Answer(t, m, pc) == [t EXCEPT !.out = m, !.pc = pc]

\* the send has returned: the user has the message
Delivered(t) == [t EXCEPT !.msgs = Append(@, t.out), !.out = Msg("-")]

\* get_main_keyboard of the Tester and of the Showcase: the rows of buttons
get_main_keyboard ==
    <<<<START_NEW_CHAT, REPORT_ISSUE>>>> \o (IF show_model_selector THEN <<<<SELECT_MODEL>>>> ELSE <<>>)
showcase_get_main_keyboard == <<<<START_NEW_CHAT>>>>

\* what reaches the platform for message m: message.answer passes the text and
\* reply_markup = get_main_keyboard() (the model prompt passes the inline
\* keyboard of the models); bot.send_message, callback.answer and edit_text
\* pass no keyboard
SentBy(interface, m) ==
    [text |-> m,
     reply_markup |-> IF m.key \in {"reply", "", "selected", "model_changed"} THEN None
                      ELSE IF m.key = "model_prompt" THEN "get_model_selection_keyboard"
                      ELSE IF interface = "tester" THEN get_main_keyboard
                      ELSE showcase_get_main_keyboard]

\* the interfaces and the View hold no StateManager
StateManagerFrame == UNCHANGED <<state_manager, sm_calls>>
TesterFrame == UNCHANGED <<iface, show_model_selector, user_states, db>> /\ StateManagerFrame
Frame == TesterFrame /\ UNCHANGED issues_table
ViewFrame == UNCHANGED <<iface, show_model_selector, chat_history, reporting_users, issues_table,
                         user_model_preferences>> /\ StateManagerFrame
ShowcaseFrame == UNCHANGED <<iface, show_model_selector, reporting_users, issues_table,
                             user_model_preferences, user_states, db>> /\ StateManagerFrame

\* ---------------------------------------------------------------- state.py
\* A dictionary is a function whose domain is the set of its keys.
DictSet(d, k, v) == [x \in (DOMAIN d) \cup {k} |-> IF x = k THEN v ELSE d[x]]
DictDel(d, k) == [x \in (DOMAIN d) \ {k} |-> d[x]]
DictGet(d, k, default) == IF k \in DOMAIN d THEN d[k] ELSE default

\* StateManager.__init__
StateManager ==
    [user_states |-> [u \in {} |-> None],
     business_descriptions |-> [u \in {} |-> None],
     message_history |-> [u \in {} |-> <<>>]]

\* get_state: self.user_states.get(user_id, UserState.WAITING_FOR_DESCRIPTION)
get_state(sm, u) == DictGet(sm.user_states, u, "waiting_for_description")
set_state(sm, u, state) == [sm EXCEPT !.user_states = DictSet(@, u, state)]
\* get_description: self.business_descriptions.get(user_id)
get_description(sm, u) == DictGet(sm.business_descriptions, u, None)
set_description(sm, u, description) ==
    [sm EXCEPT !.business_descriptions = DictSet(@, u, description)]

\* get_message_history: the list returned, and the manager after the call
\* (a user without a list is given an empty one)
get_message_history(sm, u) == DictGet(sm.message_history, u, <<>>)
get_message_history_effect(sm, u) ==
    IF u \in DOMAIN sm.message_history THEN sm
    ELSE [sm EXCEPT !.message_history = DictSet(@, u, <<>>)]

\* a faulty variant of add_message: the message is put in front
add_message_InFront(sm, u, role, content) ==
    [sm EXCEPT !.message_history =
        DictSet(@, u, <<[role |-> role, content |-> content]>> \o DictGet(@, u, <<>>))]

\* add_message
add_message(sm, u, role, content) ==
    [sm EXCEPT !.message_history =
        DictSet(@, u, Append(DictGet(@, u, <<>>), [role |-> role, content |-> content]))]

\* clear_message_history: a user without a list is left without one
clear_message_history(sm, u) ==
    IF u \in DOMAIN sm.message_history
    THEN [sm EXCEPT !.message_history = DictSet(@, u, <<>>)]
    ELSE sm

\* a faulty variant of reset_user: the message history is kept
reset_user_KeepsHistory(sm, u) ==
    [sm EXCEPT !.user_states = DictDel(@, u), !.business_descriptions = DictDel(@, u)]

\* reset_user: the keys of the user are deleted where present
reset_user(sm, u) ==
    [user_states |-> DictDel(sm.user_states, u),
     business_descriptions |-> DictDel(sm.business_descriptions, u),
     message_history |-> DictDel(sm.message_history, u)]

\* a call made on the StateManager
Call(op, u, role, content) == [op |-> op, user |-> u, role |-> role, content |-> content]

\* ---------------------------------------------------------------- Tester
\* a faulty variant of start_command: the selected model is cleared with the
\* rest of the session
T_StartCommand_ClearsModel(u) ==
    /\ iface = "tester" /\ CanReceive
    /\ chat_history' = <<>>
    /\ reporting_users' = reporting_users \ {u}
    /\ user_model_preferences' = [user_model_preferences EXCEPT ![u] = None]
    /\ Spawn([NewTask(u, "start", "/start", "", None) EXCEPT
                 !.calls = <<[type |-> "start_command", user_id |-> u, data |-> None,
                              caption |-> "", model |-> None]>>,
                 !.pc = "cb_start"])
    /\ Frame

\* /start
TesterStartCommand(u) ==
    /\ CanReceive
    /\ chat_history' = <<>>
    /\ reporting_users' = reporting_users \ {u}
    /\ Spawn(process_message(NewTask(u, "start", "/start", "", None),
                             "start_command", None, "", "cb_start"))
    /\ UNCHANGED user_model_preferences
    /\ Frame
T_StartCommand(u) == iface = "tester" /\ TesterStartCommand(u)

\* a faulty variant of delete_all_history: the reporting flag is discarded as
\* start_command does
T_DeleteAllHistory_ClearsFlag(u) ==
    /\ iface = "tester" /\ CanReceive
    /\ reporting_users' = reporting_users \ {u}
    /\ Spawn(process_message(NewTask(u, "delete_all_history", "/delete_all_history", "", None),
                             "delete_all_history", None, "", "cb_delete"))
    /\ UNCHANGED <<chat_history, user_model_preferences>>
    /\ Frame

\* /delete_all_history up to the callback
TesterDeleteAllHistory(u) ==
    /\ CanReceive
    /\ Spawn(process_message(NewTask(u, "delete_all_history", "/delete_all_history", "", None),
                             "delete_all_history", None, "", "cb_delete"))
    /\ UNCHANGED <<chat_history, reporting_users, user_model_preferences>>
    /\ Frame
T_DeleteAllHistory(u) == iface = "tester" /\ TesterDeleteAllHistory(u)

\* a faulty variant of handle_model_selection_callback: the selection starts a
\* new conversation
T_ModelSelectionCallback_Resets(u, m) ==
    /\ iface = "tester" /\ CanReceive
    /\ user_model_preferences' = [user_model_preferences EXCEPT ![u] = m]
    /\ chat_history' = <<>>
    /\ reporting_users' = reporting_users \ {u}
    /\ Spawn(Answer(NewTask(u, "select_model", None, "", m), Msg("selected"), "answer_selected"))
    /\ Frame

\* handle_model_selection_callback up to callback.answer
T_ModelSelectionCallback(u, m) ==
    /\ iface = "tester" /\ CanReceive
    /\ user_model_preferences' = [user_model_preferences EXCEPT ![u] = m]
    /\ Spawn(Answer(NewTask(u, "select_model", None, "", m), Msg("selected"), "answer_selected"))
    /\ UNCHANGED <<chat_history, reporting_users>>
    /\ Frame

\* handle_telegram_message up to send_chat_action
TesterMessage(u, content_type, text, caption, mime) ==
    /\ CanReceive
    /\ chat_history' = IF text # None THEN Append(chat_history, Entry("user", Msg(text), u))
                       ELSE chat_history
    /\ Spawn([NewTask(u, content_type, text, caption, mime) EXCEPT !.pc = "typing"])
    /\ UNCHANGED <<reporting_users, user_model_preferences>>
    /\ Frame
T_Message(u, content_type, text, caption, mime) == iface = "tester" /\ TesterMessage(u, content_type, text, caption, mime)

\* a faulty variant of _send_unsupported_content_message: the text of the
\* exception is sent to the user
send_unsupported_content_message_RawError(t) ==
    LET m == get_message("unsupported_content", language_code(t.user))
    IN  Answer(t, m, IF m = KeyError THEN "send_error" ELSE "send_unsupported")

\* _send_unsupported_content_message; the KeyError of get_message is caught by
\* the except of handle_telegram_message, which calls _send_error_message
send_unsupported_content_message(t) ==
    LET m == get_message("unsupported_content", language_code(t.user))
    IN  IF m = KeyError
        THEN Answer(t, get_message("error", language_code(t.user)), "send_error")
        ELSE Answer(t, m, "send_unsupported")

\* a faulty variant of is_supported_document: every document passes
is_supported_document_Any(t) == t.arg \in SUPPORTED_DOCUMENT_MIMES \cup Mimes

\* is_supported_document: the MIME type of the document is in the allow-list
is_supported_document(t) == t.arg \in SUPPORTED_DOCUMENT_MIMES

\* issue_details, chat_history and model_info as handed to handle_issue_report
IssueReport(t) ==
    [chat_id |-> t.user, issue_details |-> t.text, chat_history |-> chat_history,
     model_info |-> get_current_model_info(t.user)]

\* a text of two lines a user writes
TWO_LINES == "it fails\nevery time"

\* the lines of a text: the welcome message of the Tester with the selector
\* shown is config.title, an empty line and the model line
TextLines(m) ==
    IF m.key = "title" /\ m.arg # "-" THEN <<[m EXCEPT !.arg = "-"], Msg(""), Msg(m.arg)>>
    ELSE IF m.key = TWO_LINES THEN <<Msg("it fails"), Msg("every time")>>
    ELSE <<m>>

\* f"{role}: {content}" as lines: the role stands before the first line of the content
FormattedMessage(e) ==
    LET role == IF e.type = "user" THEN "User: " ELSE "AI: "
        lines == TextLines(e.message)
    IN  [k \in 1..Len(lines) |-> [prefix |-> IF k = 1 THEN role ELSE "", content |-> lines[k]]]

\* a faulty variant of format_chat_history: the newest entry comes first
RECURSIVE format_chat_history_NewestFirst(_)
format_chat_history_NewestFirst(h) ==
    IF h = <<>> THEN <<>>
    ELSE format_chat_history_NewestFirst(Tail(h)) \o FormattedMessage(Head(h))

\* format_chat_history: "\n".join of the formatted messages, as the lines of
\* the string returned
RECURSIVE format_chat_history(_)
format_chat_history(h) ==
    IF h = <<>> THEN <<>>
    ELSE FormattedMessage(Head(h)) \o format_chat_history(Tail(h))

\* format_model_info: one "key: value" line per item of the model info
format_model_info(model_info) ==
    <<[key |-> "id", value |-> model_info.id], [key |-> "source", value |-> model_info.source]>>

\* row_data of handle_issue_report: date, model info, thread, description (the
\* date is datetime.now(), one value in the model)
row_data(r) ==
    <<"current_time", format_model_info(r.model_info), format_chat_history(r.chat_history),
      r.issue_details>>

\* the outcomes of the sink: the row is appended, get_sheets_table returns
\* None, append_row raises
SinkOutcomes == {"ok", "no_table", "append_fails"}

\* a faulty variant of handle_issue_report: the thread is formatted after the
\* history was reset
handle_issue_report_AfterReset(t, sink) ==
    IF sink = "ok"
    THEN Append(issues_table, [row_data(IssueReport(t)) EXCEPT ![3] = <<>>])
    ELSE issues_table

\* handle_issue_report: the worksheet after the call; both failures are caught
\* and logged inside
handle_issue_report(t, sink) ==
    IF sink = "ok" THEN Append(issues_table, row_data(IssueReport(t))) ELSE issues_table

\* a faulty variant of _handle_issue_submission: a failure of the sink reaches
\* the except of handle_telegram_message
handle_issue_submission_SinkRaises(t, sink) ==
    IF sink = "ok"
    THEN Answer([t EXCEPT !.reports = Append(@, IssueReport(t)), !.sink = sink],
                Msg("confirmation"), "send_confirmation")
    ELSE Answer([t EXCEPT !.reports = Append(@, IssueReport(t)), !.sink = sink],
                get_message("error", language_code(t.user)), "send_error")

\* _handle_issue_submission up to the send of the confirmation
handle_issue_submission(t, sink) ==
    Answer([t EXCEPT !.reports = Append(@, IssueReport(t)), !.sink = sink],
           Msg("confirmation"), "send_confirmation")

\* a faulty variant of the text branches: the command table is not consulted
TesterTextBranch_NoCommandTable(t) ==
    IF t.text = SELECT_MODEL /\ show_model_selector THEN "select_model"
    ELSE IF t.user \in reporting_users THEN "issue_submission"
    ELSE "text_message"

\* the text branches of handle_telegram_message, in the order of the code
TesterTextBranch(t) ==
    IF t.text = SELECT_MODEL /\ show_model_selector THEN "select_model"
    ELSE IF t.text = START_NEW_CHAT THEN "start"
    ELSE IF t.text = REPORT_ISSUE THEN "report_issue"
    ELSE IF t.user \in reporting_users THEN "issue_submission"
    ELSE "text_message"

\* handle_telegram_message after send_chat_action, up to the next await
TesterDispatch(i) ==
    /\ Suspended(i) /\ tasks[i].pc = "typing"
    /\ LET t == tasks[i]
           u == t.user
       IN  \/ /\ t.kind \in AttachmentKinds
              /\ ~(t.kind = "document" /\ ~is_supported_document(t))
              /\ Resume(i, [t EXCEPT !.pc = "fetch"])
              /\ UNCHANGED <<chat_history, reporting_users, issues_table>>
           \/ /\ \/ t.kind = "document" /\ ~is_supported_document(t)
                 \/ t.kind \notin {"text", "photo", "document", "voice", "audio"}
              /\ Resume(i, send_unsupported_content_message(t))
              /\ UNCHANGED <<chat_history, reporting_users, issues_table>>
           \/ /\ t.kind = "text" /\ TesterTextBranch(t) = "select_model"
              /\ Resume(i, Answer(t, Msg("model_prompt"), "send_model_prompt"))
              /\ UNCHANGED <<chat_history, reporting_users, issues_table>>
           \/ /\ t.kind = "text" /\ TesterTextBranch(t) = "start"
              /\ chat_history' = <<>>
              /\ reporting_users' = reporting_users \ {u}
              /\ Resume(i, process_message(t, "start_command", None, "", "cb_start"))
              /\ UNCHANGED issues_table
           \/ /\ t.kind = "text" /\ TesterTextBranch(t) = "report_issue"
              /\ reporting_users' = reporting_users \cup {u}
              /\ Resume(i, Answer(t, Msg("report_prompt"), "send_report_prompt"))
              /\ UNCHANGED <<chat_history, issues_table>>
           \/ /\ t.kind = "text" /\ TesterTextBranch(t) = "issue_submission"
              /\ reporting_users' = reporting_users \ {u}
              /\ \E sink \in SinkOutcomes :
                    /\ issues_table' = handle_issue_report(t, sink)
                    /\ Resume(i, handle_issue_submission(t, sink))
              /\ UNCHANGED chat_history
           \/ /\ t.kind = "text" /\ TesterTextBranch(t) = "text_message"
              /\ Resume(i, process_message(t, "text_message", t.text, "", "cb_text"))
              /\ UNCHANGED <<chat_history, reporting_users, issues_table>>
    /\ UNCHANGED user_model_preferences
    /\ TesterFrame
T_Dispatch(i) == iface = "tester" /\ TesterDispatch(i)

\* message type, payload and history line of a resolved attachment
AttachmentType(kind) ==
    IF kind = "photo" THEN "image_message"
    ELSE IF kind = "document" THEN "document_message" ELSE "audio_message"
AttachmentData(kind) == IF kind = "photo" THEN "url" ELSE "base64"
\* image_data of handle_telegram_message: the URL returned by get_image_as_url
\* and the caption
image_data(t) == [image |-> AttachmentData("photo"), caption |-> t.caption]
\* the kinds for which a helper returning a download URL exists
\* (get_image_as_url, get_file_as_url, get_audio_as_url)
DirectLinkKinds == {"photo", "document", "audio"}
AttachmentLine(t) ==
    IF t.caption # "" THEN t.caption
    ELSE IF t.kind = "photo" THEN "Image sent"
    ELSE IF t.kind = "document" THEN "Document sent" ELSE "Audio message sent"

\* a faulty variant of the failure branch: the user is sent the error message
FetchFailed_Notifies(t) ==
    Answer([t EXCEPT !.fetch = "failed"], get_message("error", language_code(t.user)), "send_error")

\* the fetch returned None: the failure was logged by the helper, the handler returns
FetchFailed(t) == [t EXCEPT !.fetch = "failed", !.pc = "done"]

\* get_image_as_url / get_file_as_base64 / get_audio_as_base64 has returned
TesterFetchReturn(i, ok) ==
    /\ Suspended(i) /\ tasks[i].pc = "fetch"
    /\ LET t == tasks[i]
       IN  IF ok
           THEN /\ chat_history' = Append(chat_history, Entry("user", Msg(AttachmentLine(t)), t.user))
                /\ Resume(i, process_message([t EXCEPT !.fetch = "ok"], AttachmentType(t.kind),
                                             AttachmentData(t.kind), t.caption, "cb_content"))
           ELSE /\ Resume(i, FetchFailed(t))
                /\ UNCHANGED chat_history
    /\ UNCHANGED <<reporting_users, user_model_preferences>>
    /\ Frame
T_FetchReturn(i, ok) == iface = "tester" /\ TesterFetchReturn(i, ok)

\* send_message, called by the orchestrator to deliver its reply
send_message(t, m) == [t EXCEPT !.msgs = Append(@, m)]

\* a faulty variant of the except branch: the request is sent a second time
TesterCallbackError_Retry(t) ==
    [t EXCEPT !.cb = "raise", !.calls = Append(@, t.calls[Len(t.calls)])]

\* a faulty variant of the except branch: the error message is sent whatever
\* the message type
TesterCallbackError_AnyType(t) ==
    Answer([t EXCEPT !.cb = "raise"], get_message("error", language_code(t.user)), "send_cb_error")

\* the except branch of process_message
TesterCallbackError(t) ==
    IF t.calls[Len(t.calls)].type = "text_message"
    THEN Answer([t EXCEPT !.cb = "raise"], get_message("error", language_code(t.user)), "send_cb_error")
    ELSE [t EXCEPT !.cb = "raise", !.pc = "after_cb"]

\* welcome_msg of start_command: config.title, with the model when the selector is shown
TesterWelcome(u) ==
    IF show_model_selector
    THEN [key |-> "title", lang |-> "-", arg |-> get_current_model_info(u).id]
    ELSE Msg("title")

\* what the caller of process_message does next
TesterAfterCallback(t) ==
    IF t.pc = "send_cb_error" THEN t
    ELSE IF t.calls[Len(t.calls)].type = "start_command"
    THEN Answer(t, TesterWelcome(t.user), "send_welcome")
    ELSE [t EXCEPT !.pc = "done"]

\* a faulty variant of delete_all_history: the transcript is cleared only when
\* the callback succeeded
T_CallbackReturn_KeepsOnFailure(i, outcome) ==
    /\ iface = "tester"
    /\ Suspended(i) /\ tasks[i].pc \in {"cb_text", "cb_content", "cb_start", "cb_delete"}
    /\ outcome = "reply" => tasks[i].pc \in {"cb_text", "cb_content"}
    /\ LET t == tasks[i]
           r == IF outcome = "raise" THEN TesterCallbackError(t)
                ELSE IF outcome = "reply" THEN send_message([t EXCEPT !.cb = "ok"], Msg("reply"))
                ELSE [t EXCEPT !.cb = "ok"]
           h == IF outcome = "reply" THEN Append(chat_history, Entry("ai", Msg("reply"), t.user))
                ELSE chat_history
       IN  /\ Resume(i, TesterAfterCallback(r))
           /\ chat_history' = IF t.pc = "cb_delete" /\ outcome = "ok" THEN <<>> ELSE h
    /\ UNCHANGED <<reporting_users, user_model_preferences>>
    /\ Frame

\* the orchestrator callback has returned or raised
TesterCallbackReturn(i, outcome) ==
    /\ Suspended(i) /\ tasks[i].pc \in {"cb_text", "cb_content", "cb_start", "cb_delete"}
    /\ outcome = "reply" => tasks[i].pc \in {"cb_text", "cb_content"}
    /\ LET t == tasks[i]
           r == IF outcome = "raise" THEN TesterCallbackError(t)
                ELSE IF outcome = "reply" THEN send_message([t EXCEPT !.cb = "ok"], Msg("reply"))
                ELSE [t EXCEPT !.cb = "ok"]
           h == IF outcome = "reply" THEN Append(chat_history, Entry("ai", Msg("reply"), t.user))
                ELSE chat_history
       IN  /\ Resume(i, TesterAfterCallback(r))
           /\ chat_history' = IF t.pc = "cb_delete" THEN <<>> ELSE h
    /\ UNCHANGED <<reporting_users, user_model_preferences>>
    /\ Frame
T_CallbackReturn(i, outcome) == iface = "tester" /\ TesterCallbackReturn(i, outcome)

\* a send (message.answer, callback.answer, edit_text) has returned
TesterSendReturn(i) ==
    /\ Suspended(i)
    /\ tasks[i].pc \in {"send_error", "send_unsupported", "send_model_prompt", "send_report_prompt",
                        "send_confirmation", "send_welcome", "send_cb_error",
                        "answer_selected", "edit_selected"}
    /\ LET t == tasks[i]
           d == Delivered(t)
           logged == Append(chat_history, Entry("ai", t.out, t.user))
       IN  \/ /\ t.pc \in {"send_error", "send_unsupported", "send_model_prompt",
                           "send_report_prompt", "send_welcome"}
              /\ chat_history' = logged
              /\ Resume(i, [d EXCEPT !.pc = "done"])
              /\ UNCHANGED reporting_users
           \/ /\ t.pc = "send_confirmation"
              \* the confirmation is logged, then start_command(message) clears the list
              /\ chat_history' = <<>>
              /\ reporting_users' = reporting_users \ {t.user}
              /\ Resume(i, process_message(d, "start_command", None, "", "cb_start"))
           \/ /\ t.pc = "send_cb_error"
              /\ Resume(i, [d EXCEPT !.pc = "done"])
              /\ UNCHANGED <<chat_history, reporting_users>>
           \/ /\ t.pc = "answer_selected"
              /\ Resume(i, Answer(d, Msg("model_changed"), "edit_selected"))
              /\ UNCHANGED <<chat_history, reporting_users>>
           \/ /\ t.pc = "edit_selected"
              /\ Resume(i, [d EXCEPT !.pc = "done"])
              /\ UNCHANGED <<chat_history, reporting_users>>
    /\ UNCHANGED user_model_preferences
    /\ Frame
T_SendReturn(i) == iface = "tester" /\ TesterSendReturn(i)

\* ---------------------------------------------------------------- Showcase
\* message_data built by process_message of the Showcase interface (no settings)
ShowcaseMessageData(u, message_type, data, caption) ==
    [type |-> message_type, user_id |-> u, data |-> data, caption |-> caption, model |-> None]

showcase_process_message(t, message_type, data, caption, pc) ==
    [t EXCEPT !.calls = Append(@, ShowcaseMessageData(t.user, message_type, data, caption)),
              !.pc = pc]

\* /start
ShowcaseStartCommand(u) ==
    /\ CanReceive
    /\ chat_history' = <<>>
    /\ Spawn(showcase_process_message(NewTask(u, "start", "/start", "", None),
                                      "start_command", None, "", "cb_start"))
    /\ ShowcaseFrame
S_StartCommand(u) == iface = "showcase" /\ ShowcaseStartCommand(u)

\* /delete_all_history up to the callback
ShowcaseDeleteAllHistory(u) ==
    /\ CanReceive
    /\ Spawn(showcase_process_message(NewTask(u, "delete_all_history", "/delete_all_history", "", None),
                                      "delete_all_history", None, "", "cb_delete"))
    /\ UNCHANGED chat_history
    /\ ShowcaseFrame
S_DeleteAllHistory(u) == iface = "showcase" /\ ShowcaseDeleteAllHistory(u)

\* handle_telegram_message up to send_chat_action
ShowcaseMessage(u, content_type, text, caption) ==
    /\ CanReceive
    /\ chat_history' = IF text # None THEN Append(chat_history, Entry("user", Msg(text), u))
                       ELSE chat_history
    /\ Spawn([NewTask(u, content_type, text, caption, None) EXCEPT !.pc = "typing"])
    /\ ShowcaseFrame
S_Message(u, content_type, text, caption) == iface = "showcase" /\ ShowcaseMessage(u, content_type, text, caption)

\* handle_telegram_message after send_chat_action, up to the next await
ShowcaseDispatch(i) ==
    /\ Suspended(i) /\ tasks[i].pc = "typing"
    /\ LET t == tasks[i]
       IN  \/ /\ t.kind = "photo"
              /\ Resume(i, [t EXCEPT !.pc = "fetch"])
              /\ UNCHANGED chat_history
           \/ /\ t.kind \notin {"text", "photo"}
              /\ Resume(i, send_unsupported_content_message(t))
              /\ UNCHANGED chat_history
           \/ /\ t.kind = "text" /\ t.text = START_NEW_CHAT
              /\ chat_history' = <<>>
              /\ Resume(i, showcase_process_message(t, "start_command", None, "", "cb_start"))
           \/ /\ t.kind = "text" /\ t.text # START_NEW_CHAT
              /\ Resume(i, showcase_process_message(t, "text_message", t.text, "", "cb_text"))
              /\ UNCHANGED chat_history
    /\ ShowcaseFrame
S_Dispatch(i) == iface = "showcase" /\ ShowcaseDispatch(i)

\* get_image_as_url has returned
ShowcaseFetchReturn(i, ok) ==
    /\ Suspended(i) /\ tasks[i].pc = "fetch"
    /\ LET t == tasks[i]
       IN  IF ok
           THEN /\ chat_history' = Append(chat_history, Entry("user", Msg(AttachmentLine(t)), t.user))
                /\ Resume(i, showcase_process_message([t EXCEPT !.fetch = "ok"], "image_message", "url",
                                                      t.caption, "cb_content"))
           ELSE /\ Resume(i, FetchFailed(t))
                /\ UNCHANGED chat_history
    /\ ShowcaseFrame
S_FetchReturn(i, ok) == iface = "showcase" /\ ShowcaseFetchReturn(i, ok)

\* a faulty variant of the except branch: the failure is logged and the user
\* is never told
ShowcaseCallbackError_Silent(t) == [t EXCEPT !.cb = "raise", !.pc = "after_cb"]

\* the except branch of process_message
ShowcaseCallbackError(t) ==
    IF t.calls[Len(t.calls)].type = "text_message"
    THEN Answer([t EXCEPT !.cb = "raise"], get_message("error", language_code(t.user)), "send_cb_error")
    ELSE [t EXCEPT !.cb = "raise", !.pc = "after_cb"]

\* a faulty variant of start_command: no welcome message follows the callback
ShowcaseAfterCallback_NoWelcome(t) ==
    IF t.pc = "send_cb_error" THEN t ELSE [t EXCEPT !.pc = "done"]

\* what the caller of process_message does next
ShowcaseAfterCallback(t) ==
    IF t.pc = "send_cb_error" THEN t
    ELSE IF t.calls[Len(t.calls)].type = "start_command"
    THEN Answer(t, Msg("title"), "send_welcome")
    ELSE [t EXCEPT !.pc = "done"]

\* the orchestrator callback has returned or raised
ShowcaseCallbackReturn(i, outcome) ==
    /\ Suspended(i) /\ tasks[i].pc \in {"cb_text", "cb_content", "cb_start", "cb_delete"}
    /\ outcome = "reply" => tasks[i].pc \in {"cb_text", "cb_content"}
    /\ LET t == tasks[i]
           r == IF outcome = "raise" THEN ShowcaseCallbackError(t)
                ELSE IF outcome = "reply" THEN send_message([t EXCEPT !.cb = "ok"], Msg("reply"))
                ELSE [t EXCEPT !.cb = "ok"]
           h == IF outcome = "reply" THEN Append(chat_history, Entry("ai", Msg("reply"), t.user))
                ELSE chat_history
       IN  /\ Resume(i, ShowcaseAfterCallback(r))
           /\ chat_history' = IF t.pc = "cb_delete" THEN <<>> ELSE h
    /\ ShowcaseFrame
S_CallbackReturn(i, outcome) == iface = "showcase" /\ ShowcaseCallbackReturn(i, outcome)

\* a message.answer has returned
ShowcaseSendReturn(i) ==
    /\ Suspended(i) /\ tasks[i].pc \in {"send_error", "send_unsupported", "send_welcome", "send_cb_error"}
    /\ LET t == tasks[i]
       IN  /\ chat_history' = IF t.pc = "send_cb_error" THEN chat_history
                               ELSE Append(chat_history, Entry("ai", t.out, t.user))
           /\ Resume(i, [Delivered(t) EXCEPT !.pc = "done"])
    /\ ShowcaseFrame
S_SendReturn(i) == iface = "showcase" /\ ShowcaseSendReturn(i)

\* ---------------------------------------------------------------- View (view.py)
WAITING_FOR_DESCRIPTION == "waiting_for_description"
CHATTING == "chatting"

\* _get_business_description: the stored text, None when the user has no row
get_business_description(u) == IF db[u] = "norow" THEN None ELSE db[u]

\* a description the code treats as present (neither None nor empty)
Truthy(d) == d # None /\ d # ""

\* _save_business_description: UPDATE changes the row of the user, if there is one
save_business_description(u, text) ==
    IF db[u] = "norow" THEN db ELSE [db EXCEPT ![u] = text]

ViewRequest(u, type, text) ==
    [type |-> type, user_id |-> u, data |-> text, caption |-> "", model |-> None]

view_callback(t, type, text, pc) ==
    [t EXCEPT !.calls = Append(@, ViewRequest(t.user, type, text)), !.pc = pc]

\* _start_command up to the callback
V_StartCommand(u) ==
    /\ iface = "view" /\ CanReceive
    \* _delete_business_description, then save_user_details with an empty description
    /\ db' = [db EXCEPT ![u] = ""]
    /\ user_states' = [user_states EXCEPT ![u] = WAITING_FOR_DESCRIPTION]
    /\ Spawn(view_callback(NewTask(u, "start", "/start", "", None),
                           "delete_entries_by_thread_id", None, "cb_start"))
    /\ ViewFrame

\* _handle_message up to send_chat_action; message.text[:50] raises TypeError
\* for a message without text, before the try block
V_Message(u, content_type, text) ==
    /\ iface = "view" /\ CanReceive
    /\ Spawn(IF text = None
             THEN [NewTask(u, content_type, text, "", None) EXCEPT !.pc = "done", !.cb = "TypeError",
                                                                  !.raised = "TypeError"]
             ELSE [NewTask(u, content_type, text, "", None) EXCEPT !.pc = "typing"])
    /\ UNCHANGED <<db, user_states>>
    /\ ViewFrame

\* the state of the user after the lazy initialisation of _handle_message
ViewStateOf(u) ==
    IF user_states[u] # "absent" THEN user_states[u]
    ELSE IF Truthy(get_business_description(u)) THEN CHATTING
    ELSE WAITING_FOR_DESCRIPTION

\* a faulty variant of the WAITING_FOR_DESCRIPTION branch: the description is
\* also forwarded to the orchestrator
ViewAcceptDescription_Forwarding(t) == view_callback(t, "text", t.text, "cb_text")

\* the WAITING_FOR_DESCRIPTION branch: the text is the description, the
\* confirmation is sent and the callback is not invoked
ViewAcceptDescription(t) ==
    Answer(t, get_message("description_accepted", language_code(t.user)), "send_ack")

\* _handle_message after send_chat_action, up to the next await
V_Dispatch(i) ==
    /\ iface = "view"
    /\ Suspended(i) /\ tasks[i].pc = "typing"
    /\ LET t == tasks[i]
           u == t.user
       IN  \/ /\ ViewStateOf(u) = WAITING_FOR_DESCRIPTION
              /\ db' = save_business_description(u, t.text)
              /\ user_states' = [user_states EXCEPT ![u] = CHATTING]
              /\ Resume(i, ViewAcceptDescription(t))
           \/ /\ ViewStateOf(u) = CHATTING
              /\ ~Truthy(get_business_description(u))
              /\ user_states' = [user_states EXCEPT ![u] = WAITING_FOR_DESCRIPTION]
              /\ Resume(i, Answer(t, get_message("welcome", language_code(u)), "send_welcome"))
              /\ UNCHANGED db
           \/ /\ ViewStateOf(u) = CHATTING
              /\ Truthy(get_business_description(u))
              /\ user_states' = [user_states EXCEPT ![u] = CHATTING]
              /\ Resume(i, view_callback(t, "text", t.text, "cb_text"))
              /\ UNCHANGED db
    /\ ViewFrame

\* the except branches around view_callback
ViewCallbackError(t) ==
    IF t.pc = "cb_text"
    THEN Answer([t EXCEPT !.cb = "raise"], get_message("error", language_code(t.user)), "send_error")
    ELSE [t EXCEPT !.cb = "raise"]

\* what follows the callback: _start_command sends the welcome message
ViewAfterCallback(t) ==
    IF t.pc = "send_error" THEN t
    ELSE IF t.pc = "cb_start"
    THEN Answer(t, get_message("welcome", language_code(t.user)), "send_welcome")
    ELSE [t EXCEPT !.pc = "done"]

\* view_callback has returned or raised
V_CallbackReturn(i, outcome) ==
    /\ iface = "view"
    /\ Suspended(i) /\ tasks[i].pc \in {"cb_text", "cb_start"}
    /\ outcome = "reply" => tasks[i].pc = "cb_text"
    /\ LET t == tasks[i]
           r == IF outcome = "raise" THEN ViewCallbackError(t)
                ELSE IF outcome = "reply" THEN send_message([t EXCEPT !.cb = "ok"], Msg("reply"))
                ELSE [t EXCEPT !.cb = "ok"]
       IN  Resume(i, ViewAfterCallback(r))
    /\ UNCHANGED <<db, user_states>>
    /\ ViewFrame

\* a message.answer has returned
V_SendReturn(i) ==
    /\ iface = "view"
    /\ Suspended(i) /\ tasks[i].pc \in {"send_ack", "send_welcome", "send_error", "send_last_error"}
    /\ Resume(i, [Delivered(tasks[i]) EXCEPT !.pc = "done"])
    /\ UNCHANGED <<db, user_states>>
    /\ ViewFrame

\* ---------------------------------------------------------------- specification
Init ==
    /\ iface \in {"tester", "showcase", "view"}
    /\ show_model_selector \in (IF iface = "tester" THEN BOOLEAN ELSE {FALSE})
    /\ chat_history = <<>>
    /\ reporting_users = {}
    /\ user_model_preferences = [u \in Users |-> None]
    /\ user_states = [u \in Users |-> "absent"]
    /\ db = [u \in Users |-> "norow"]
    /\ issues_table = <<>>
    /\ tasks = <<>>
    /\ nEvents = 0
    /\ state_manager = StateManager
    /\ sm_calls = <<>>

Slots == 1..(MaxInFlight + 1)
Outcomes == {"ok", "reply", "raise"}

TesterNext ==
    \/ \E u \in Users : T_StartCommand(u)
    \/ \E u \in Uploaders : T_DeleteAllHistory(u)
    \/ \E u \in Users, m \in Models : T_ModelSelectionCallback(u, m)
    \/ \E u \in Users : \E text \in TextsOf(u) : T_Message(u, "text", text, "", None)
    \/ \E u \in Uploaders : T_Message(u, "photo", None, "cap", None)
    \/ \E u \in Uploaders, k \in {"audio", "sticker"} : T_Message(u, k, None, "", None)
    \/ \E u \in Uploaders, mime \in Mimes : T_Message(u, "document", None, "", mime)
    \/ \E i \in Slots : T_Dispatch(i)
    \/ \E i \in Slots, ok \in BOOLEAN : T_FetchReturn(i, ok)
    \/ \E i \in Slots, outcome \in Outcomes : T_CallbackReturn(i, outcome)
    \/ \E i \in Slots : T_SendReturn(i)

ShowcaseNext ==
    \/ \E u \in Users : S_StartCommand(u)
    \/ \E u \in Uploaders : S_DeleteAllHistory(u)
    \/ \E u \in Users : \E text \in TextsOf(u) \ {REPORT_ISSUE, SELECT_MODEL} : S_Message(u, "text", text, "")
    \/ \E u \in Uploaders : S_Message(u, "photo", None, "cap")
    \/ \E u \in Uploaders, k \in {"document", "sticker"} : S_Message(u, k, None, "")
    \/ \E i \in Slots : S_Dispatch(i)
    \/ \E i \in Slots, ok \in BOOLEAN : S_FetchReturn(i, ok)
    \/ \E i \in Slots, outcome \in Outcomes : S_CallbackReturn(i, outcome)
    \/ \E i \in Slots : S_SendReturn(i)

ViewNext ==
    \/ \E u \in Users : V_StartCommand(u)
    \/ \E u \in Users, text \in ViewTexts : V_Message(u, "text", text)
    \/ \E u \in Uploaders : V_Message(u, "photo", None)
    \/ \E i \in Slots : V_Dispatch(i)
    \/ \E i \in Slots, outcome \in Outcomes : V_CallbackReturn(i, outcome)
    \/ \E i \in Slots : V_SendReturn(i)

Next == TesterNext \/ ShowcaseNext \/ ViewNext

Spec == Init /\ [][Next]_vars

\* The steps the event loop and the platform take by themselves: a handler that
\* can run is run, and the requests to the platform (typing indicator, sends,
\* file download) come back, the HTTP session of the bot bounding each of them.
\* The orchestrator callback is awaited with no bound: nothing makes it return.
HandlerStep ==
    \E i \in Slots :
        \/ T_Dispatch(i) \/ T_SendReturn(i) \/ \E ok \in BOOLEAN : T_FetchReturn(i, ok)
        \/ S_Dispatch(i) \/ S_SendReturn(i) \/ \E ok \in BOOLEAN : S_FetchReturn(i, ok)
        \/ V_Dispatch(i) \/ V_SendReturn(i)

LiveSpec == Init /\ [][Next]_vars /\ WF_vars(HandlerStep)

\* ---------------------------------------------------------------- the Issue Reporter alone
\* handle_issue_report applied to the transcripts the Tester can hold: texts of
\* the user of one and of two lines, replies, and the welcome message with the
\* model line. The description has arrived and its sender is no longer reporting.
ReporterEntries ==
    {Entry("user", Msg("hi"), "ua"), Entry("user", Msg(TWO_LINES), "ua"),
     Entry("ai", Msg("reply"), "ua"),
     Entry("ai", [key |-> "title", lang |-> "-", arg |-> "config"], "ua")}
ReporterTranscripts == UNION {[1..n -> ReporterEntries] : n \in 0..MaxTranscript}

ReporterInit ==
    /\ iface = "tester"
    /\ show_model_selector = TRUE
    /\ chat_history \in ReporterTranscripts
    /\ reporting_users = {}
    /\ user_model_preferences \in {[u \in Users |-> IF u = "ua" THEN m ELSE None] : m \in Models \cup {None}}
    /\ user_states = [u \in Users |-> "absent"]
    /\ db = [u \in Users |-> "norow"]
    /\ issues_table = <<>>
    /\ tasks = <<>>
    /\ nEvents = 0
    /\ state_manager = StateManager
    /\ sm_calls = <<>>

\* the call of handle_issue_report made by _handle_issue_submission
R_HandleIssueReport(u, text, sink) ==
    /\ nEvents < MaxReports
    /\ LET t == NewTask(u, "text", text, "", None)
       IN  /\ issues_table' = handle_issue_report(t, sink)
           /\ tasks' = <<[t EXCEPT !.reports = <<IssueReport(t)>>, !.sink = sink, !.pc = "done"]>>
    /\ nEvents' = nEvents + 1
    /\ UNCHANGED <<chat_history, reporting_users, user_model_preferences>>
    /\ TesterFrame

ReporterNext ==
    \E u \in Users, text \in {"hi", TWO_LINES}, sink \in SinkOutcomes : R_HandleIssueReport(u, text, sink)

ReporterSpec == ReporterInit /\ [][ReporterNext]_vars

\* ---------------------------------------------------------------- a session under way
\* The Tester after ua has selected a model and pressed Report Issue, both
\* handlers having returned: ua is reporting, the transcript holds the button
\* text and the prompt. ua goes on with every text, /start, delete_all_history,
\* a model selection and a photo; ub sends an ordinary text and selects a model.
SessionInit ==
    /\ iface = "tester"
    /\ show_model_selector = TRUE
    /\ chat_history = <<Entry("user", Msg(REPORT_ISSUE), "ua"), Entry("ai", Msg("report_prompt"), "ua")>>
    /\ reporting_users = {"ua"}
    /\ user_model_preferences = [u \in Users |-> IF u = "ua" THEN "m1" ELSE None]
    /\ user_states = [u \in Users |-> "absent"]
    /\ db = [u \in Users |-> "norow"]
    /\ issues_table = <<>>
    /\ tasks = <<>>
    /\ nEvents = 0
    /\ state_manager = StateManager
    /\ sm_calls = <<>>

SessionNext ==
    \/ T_StartCommand("ua")
    \/ T_DeleteAllHistory("ua")
    \/ \E u \in Users, m \in Models : T_ModelSelectionCallback(u, m)
    \/ \E text \in Texts : T_Message("ua", "text", text, "", None)
    \/ T_Message("ub", "text", "hi", "", None)
    \/ T_Message("ua", "photo", None, "cap", None)
    \/ \E i \in Slots : T_Dispatch(i)
    \/ \E i \in Slots, ok \in BOOLEAN : T_FetchReturn(i, ok)
    \/ \E i \in Slots, outcome \in Outcomes : T_CallbackReturn(i, outcome)
    \/ \E i \in Slots : T_SendReturn(i)

SessionSpec == SessionInit /\ [][SessionNext]_vars

\* ---------------------------------------------------------------- the common events
\* The Tester with the model selector disabled and the Showcase, receiving the
\* events both handle: /start, the Start New Chat button, delete_all_history,
\* a photo and texts that are no command of either (the select-model text is
\* none while the selector is disabled).
CommonTexts == {"hi", START_NEW_CHAT, SELECT_MODEL}

TesterCommonStep ==
    \/ \E u \in Users : TesterStartCommand(u)
    \/ TesterDeleteAllHistory("ua")
    \/ \E u \in Users, text \in CommonTexts : TesterMessage(u, "text", text, "", None)
    \/ TesterMessage("ua", "photo", None, "cap", None)
    \/ \E i \in Slots : TesterDispatch(i)
    \/ \E i \in Slots, ok \in BOOLEAN : TesterFetchReturn(i, ok)
    \/ \E i \in Slots, outcome \in Outcomes : TesterCallbackReturn(i, outcome)
    \/ \E i \in Slots : TesterSendReturn(i)

ShowcaseCommonStep ==
    \/ \E u \in Users : ShowcaseStartCommand(u)
    \/ ShowcaseDeleteAllHistory("ua")
    \/ \E u \in Users, text \in CommonTexts : ShowcaseMessage(u, "text", text, "")
    \/ ShowcaseMessage("ua", "photo", None, "cap")
    \/ \E i \in Slots : ShowcaseDispatch(i)
    \/ \E i \in Slots, ok \in BOOLEAN : ShowcaseFetchReturn(i, ok)
    \/ \E i \in Slots, outcome \in Outcomes : ShowcaseCallbackReturn(i, outcome)
    \/ \E i \in Slots : ShowcaseSendReturn(i)

CommonInit ==
    /\ iface \in {"tester", "showcase"}
    /\ show_model_selector = FALSE
    /\ chat_history = <<>>
    /\ reporting_users = {}
    /\ user_model_preferences = [u \in Users |-> None]
    /\ user_states = [u \in Users |-> "absent"]
    /\ db = [u \in Users |-> "norow"]
    /\ issues_table = <<>>
    /\ tasks = <<>>
    /\ nEvents = 0
    /\ state_manager = StateManager
    /\ sm_calls = <<>>

\* the steps of the interface that runs: TesterCommonStep in the Tester,
\* ShowcaseCommonStep in the Showcase
CommonNext ==
    \/ \E u \in Users : T_StartCommand(u)
    \/ T_DeleteAllHistory("ua")
    \/ \E u \in Users, text \in CommonTexts : T_Message(u, "text", text, "", None)
    \/ T_Message("ua", "photo", None, "cap", None)
    \/ \E i \in Slots : T_Dispatch(i)
    \/ \E i \in Slots, ok \in BOOLEAN : T_FetchReturn(i, ok)
    \/ \E i \in Slots, outcome \in Outcomes : T_CallbackReturn(i, outcome)
    \/ \E i \in Slots : T_SendReturn(i)
    \/ \E u \in Users : S_StartCommand(u)
    \/ S_DeleteAllHistory("ua")
    \/ \E u \in Users, text \in CommonTexts : S_Message(u, "text", text, "")
    \/ S_Message("ua", "photo", None, "cap")
    \/ \E i \in Slots : S_Dispatch(i)
    \/ \E i \in Slots, ok \in BOOLEAN : S_FetchReturn(i, ok)
    \/ \E i \in Slots, outcome \in Outcomes : S_CallbackReturn(i, outcome)
    \/ \E i \in Slots : S_SendReturn(i)

CommonSpec == CommonInit /\ [][CommonNext]_vars

\* ---------------------------------------------------------------- the StateManager alone
\* The calls a holder of a StateManager can make, in any order, on two users.
StateManagerInit ==
    /\ iface = "view"
    /\ show_model_selector = FALSE
    /\ chat_history = <<>>
    /\ reporting_users = {}
    /\ user_model_preferences = [u \in Users |-> None]
    /\ user_states = [u \in Users |-> "absent"]
    /\ db = [u \in Users |-> "norow"]
    /\ issues_table = <<>>
    /\ tasks = <<>>
    /\ nEvents = 0
    /\ state_manager = StateManager
    /\ sm_calls = <<>>

SM_Call(c, sm) ==
    /\ Len(sm_calls) < MaxCalls
    /\ sm_calls' = Append(sm_calls, c)
    /\ state_manager' = sm
    /\ UNCHANGED <<iface, show_model_selector, chat_history, reporting_users, user_model_preferences,
                   user_states, db, issues_table, tasks, nEvents>>

SM_SetState(u, state) ==
    SM_Call(Call("set_state", u, "-", state), set_state(state_manager, u, state))
SM_SetDescription(u, description) ==
    SM_Call(Call("set_description", u, "-", description), set_description(state_manager, u, description))
SM_GetMessageHistory(u) ==
    SM_Call(Call("get_message_history", u, "-", "-"), get_message_history_effect(state_manager, u))
SM_AddMessage(u, role, content) ==
    SM_Call(Call("add_message", u, role, content), add_message(state_manager, u, role, content))
SM_ClearMessageHistory(u) ==
    SM_Call(Call("clear_message_history", u, "-", "-"), clear_message_history(state_manager, u))
SM_ResetUser(u) ==
    SM_Call(Call("reset_user", u, "-", "-"), reset_user(state_manager, u))

StateManagerNext ==
    \/ \E u \in Users : SM_SetState(u, "chatting")
    \/ \E u \in Users : SM_SetDescription(u, "we sell coffee")
    \/ \E u \in Users : SM_GetMessageHistory(u)
    \/ \E u \in Users : SM_AddMessage(u, "user", "hi") \/ SM_AddMessage(u, "assistant", "reply")
    \/ \E u \in Users : SM_ClearMessageHistory(u)
    \/ \E u \in Users : SM_ResetUser(u)

StateManagerSpec == StateManagerInit /\ [][StateManagerNext]_vars

\* ---------------------------------------------------------------- the View after a restart
\* The process has been started again: user_states is empty, the users table
\* is as the last run left it. A user has no row (never sent /start), a row
\* with an empty description (the last action was /start) or a row with the
\* context supplied after /start.
RestartInit ==
    /\ iface = "view"
    /\ show_model_selector = FALSE
    /\ chat_history = <<>>
    /\ reporting_users = {}
    /\ user_model_preferences = [u \in Users |-> None]
    /\ user_states = [u \in Users |-> "absent"]
    /\ db \in [Users -> {"norow", "", "we sell coffee"}]
    /\ issues_table = <<>>
    /\ tasks = <<>>
    /\ nEvents = 0
    /\ state_manager = StateManager
    /\ sm_calls = <<>>

RestartSpec == RestartInit /\ [][ViewNext]_vars

\* ---------------------------------------------------------------- failing collaborators
\* The steps below are taken in FaultSpec only: the typing indicator or a send
\* raises, and the orchestrator hands send_message a reply that cannot be
\* delivered (the platform rejects an empty text).
Replies == {Msg("reply"), Msg("")}

\* an exception leaves the handler
Escapes(t, exception) == [t EXCEPT !.pc = "done", !.raised = exception]

\* the handler is handle_telegram_message / _handle_message, whose body is a try block
InTryBlock(t) == t.kind \notin {"start", "delete_all_history", "select_model"}

\* message.answer has raised: inside the try block the except branch sends the
\* error message, whose own failure leaves the handler, as does a failure in
\* start_command or handle_model_selection_callback
SendFailed(t) ==
    LET f == [t EXCEPT !.failed = Append(@, t.out), !.out = Msg("-")]
    IN  IF InTryBlock(t) /\ t.pc \notin {"send_error", "send_last_error"}
        THEN Answer(f, get_message("error", language_code(t.user)),
                    IF iface = "view" THEN "send_last_error" ELSE "send_error")
        ELSE Escapes(f, "message.answer")

\* send_chat_action has raised, before the try block
T_TypingFails(i) ==
    /\ iface = "tester"
    /\ Suspended(i) /\ tasks[i].pc = "typing"
    /\ Resume(i, Escapes(tasks[i], "send_chat_action"))
    /\ UNCHANGED <<chat_history, reporting_users, user_model_preferences>>
    /\ Frame

\* message.answer, callback.answer or edit_text has raised
T_SendFails(i) ==
    /\ iface = "tester"
    /\ Suspended(i)
    /\ tasks[i].pc \in {"send_error", "send_unsupported", "send_model_prompt", "send_report_prompt",
                        "send_confirmation", "send_welcome", "send_cb_error",
                        "answer_selected", "edit_selected"}
    /\ Resume(i, SendFailed(tasks[i]))
    /\ UNCHANGED <<chat_history, reporting_users, user_model_preferences>>
    /\ Frame

\* send_message, called by the orchestrator with reply m, has raised: nothing
\* is appended, the exception is raised again and the callback either lets it
\* through or returns normally
T_ReplyFails(i, m, propagates) ==
    /\ iface = "tester"
    /\ Suspended(i) /\ tasks[i].pc \in {"cb_text", "cb_content"}
    /\ LET f == [tasks[i] EXCEPT !.failed = Append(@, m)]
       IN  Resume(i, TesterAfterCallback(IF propagates THEN TesterCallbackError(f)
                                         ELSE [f EXCEPT !.cb = "ok"]))
    /\ UNCHANGED <<chat_history, reporting_users, user_model_preferences>>
    /\ Frame

S_TypingFails(i) ==
    /\ iface = "showcase"
    /\ Suspended(i) /\ tasks[i].pc = "typing"
    /\ Resume(i, Escapes(tasks[i], "send_chat_action"))
    /\ UNCHANGED chat_history
    /\ ShowcaseFrame

S_SendFails(i) ==
    /\ iface = "showcase"
    /\ Suspended(i) /\ tasks[i].pc \in {"send_error", "send_unsupported", "send_welcome", "send_cb_error"}
    /\ Resume(i, SendFailed(tasks[i]))
    /\ UNCHANGED chat_history
    /\ ShowcaseFrame

S_ReplyFails(i, m, propagates) ==
    /\ iface = "showcase"
    /\ Suspended(i) /\ tasks[i].pc \in {"cb_text", "cb_content"}
    /\ LET f == [tasks[i] EXCEPT !.failed = Append(@, m)]
       IN  Resume(i, ShowcaseAfterCallback(IF propagates THEN ShowcaseCallbackError(f)
                                           ELSE [f EXCEPT !.cb = "ok"]))
    /\ UNCHANGED chat_history
    /\ ShowcaseFrame

V_TypingFails(i) ==
    /\ iface = "view"
    /\ Suspended(i) /\ tasks[i].pc = "typing"
    /\ Resume(i, Escapes(tasks[i], "send_chat_action"))
    /\ UNCHANGED <<db, user_states>>
    /\ ViewFrame

V_SendFails(i) ==
    /\ iface = "view"
    /\ Suspended(i) /\ tasks[i].pc \in {"send_ack", "send_welcome", "send_error", "send_last_error"}
    /\ Resume(i, SendFailed(tasks[i]))
    /\ UNCHANGED <<db, user_states>>
    /\ ViewFrame

FaultNext ==
    \/ Next
    \/ \E i \in Slots : T_TypingFails(i)
    \/ \E i \in Slots : T_SendFails(i)
    \/ \E i \in Slots, m \in Replies, propagates \in BOOLEAN : T_ReplyFails(i, m, propagates)
    \/ \E i \in Slots : S_TypingFails(i)
    \/ \E i \in Slots : S_SendFails(i)
    \/ \E i \in Slots, m \in Replies, propagates \in BOOLEAN : S_ReplyFails(i, m, propagates)
    \/ \E i \in Slots : V_TypingFails(i)
    \/ \E i \in Slots : V_SendFails(i)

FaultSpec == Init /\ [][FaultNext]_vars

\* ---------------------------------------------------------------- observers
\* the handler that has just returned
Returned(i) == i \in DOMAIN tasks /\ tasks[i].pc = "done"

\* the part of the transcript that belongs to the conversation of u
TranscriptOf(u) == SelectSeq(chat_history, LAMBDA e : e.uid = u)

\* in a step: a new handler was started / suspended handler i ran a segment
Spawned == Len(tasks') = Len(Live(tasks)) + 1
Pos(i) == Len(Live(SubSeq(tasks, 1, i)))
Resumed(i) == Suspended(i) /\ ~Spawned /\ tasks'[Pos(i)] # tasks[i]
After(i) == tasks'[Pos(i)]
Acting(u) ==
    \/ Spawned /\ tasks'[Len(tasks')].user = u
    \/ \E i \in DOMAIN tasks : Resumed(i) /\ tasks[i].user = u

\* the message type of the request the handler made last
LastCall(t) == IF t.calls = <<>> THEN "none" ELSE t.calls[Len(t.calls)].type
ErrorMsg(u) == get_message("error", language_code(u))
HasKey(msgs, key) == \E k \in DOMAIN msgs : msgs[k].key = key

\* the handler handles start: /start, or the Start New Chat button of the interfaces
IsStart(t) ==
    \/ t.kind = "start"
    \/ iface \in {"tester", "showcase"} /\ t.kind = "text" /\ t.text = START_NEW_CHAT

\* the content is answered by _send_unsupported_content_message
IsUnsupported(t) ==
    \/ iface = "tester" /\ (t.kind = "sticker" \/ (t.kind = "document" /\ ~is_supported_document(t)))
    \/ iface = "showcase" /\ t.kind \notin {"text", "photo", "start", "delete_all_history"}

\* ---------------------------------------------------------------- claims
\* C1: sessions are isolated per user: a step of a handler of user a changes
\* neither the transcript, the reporting flag nor the selected model of another
\* user b, and the transcript handed to the Issue Reporter for a holds only
\* entries of a's conversation.
C1_IsolatedStep ==
    /\ \A a \in Users, b \in Users :
          (a # b /\ Acting(a)) =>
              /\ TranscriptOf(b)' = TranscriptOf(b)
              /\ (b \in reporting_users') = (b \in reporting_users)
              /\ user_model_preferences'[b] = user_model_preferences[b]
    /\ \A i \in DOMAIN tasks' : \A r \in DOMAIN tasks'[i].reports :
          \A k \in DOMAIN tasks'[i].reports[r].chat_history :
              tasks'[i].reports[r].chat_history[k].uid = tasks'[i].user
C1_SessionsIsolated == [][C1_IsolatedStep]_vars

\* C3: when a handler of start returns, the user's state is
\* WAITING_FOR_DESCRIPTION (View), the user's transcript is empty and the user is
\* not reporting (interfaces), after exactly one history-deletion request and
\* the welcome message.
C3_StartResets ==
    \A i \in DOMAIN tasks :
        (Returned(i) /\ IsStart(tasks[i])) =>
            LET t == tasks[i] IN
            /\ iface = "view" => user_states[t.user] = WAITING_FOR_DESCRIPTION
            /\ iface # "view" => (TranscriptOf(t.user) = <<>> /\ t.user \notin reporting_users)
            /\ Len(t.calls) = 1
            /\ LastCall(t) \in {"start_command", "delete_entries_by_thread_id"}
            /\ Len(t.msgs) = 1 /\ t.msgs[1].key \in {"title", "welcome"}

\* C4: in the View a text handled while the user's state is
\* WAITING_FOR_DESCRIPTION moves the user to CHATTING and is answered with the
\* localized acknowledgment without a call of the orchestrator callback; the
\* handler of /start makes exactly one call, the deletion request.
C4_ContextStep ==
    \A i \in DOMAIN tasks :
        (/\ iface = "view" /\ Resumed(i) /\ tasks[i].pc = "typing"
         /\ \/ user_states[tasks[i].user] = WAITING_FOR_DESCRIPTION
            \/ user_states[tasks[i].user] = "absent" /\ db[tasks[i].user] \in {"norow", ""})
        => /\ user_states'[tasks[i].user] = CHATTING
           /\ After(i).calls = <<>>
           /\ After(i).pc = "send_ack"
           /\ After(i).out = Loc("description_accepted", language_mapping(language_code(tasks[i].user)))
C4_ContextReturn ==
    \A i \in DOMAIN tasks :
        (iface = "view" /\ Returned(i)) =>
            LET t == tasks[i] IN
            /\ HasKey(t.msgs, "description_accepted") =>
                  (t.calls = <<>> /\ t.msgs = <<Loc("description_accepted",
                                                     language_mapping(language_code(t.user)))>>)
            /\ t.kind = "start" =>
                  (Len(t.calls) = 1 /\ LastCall(t) = "delete_entries_by_thread_id")
C4_ContextAccepted == [][C4_ContextStep]_vars /\ []C4_ContextReturn
C4_Witness ==
    \E i \in DOMAIN tasks :
        /\ iface = "view" /\ Returned(i) /\ tasks[i].kind = "text"
        /\ HasKey(tasks[i].msgs, "description_accepted")
        /\ user_states[tasks[i].user] = CHATTING
        /\ db[tasks[i].user] = tasks[i].text

\* C5: two events of the same user never overlap: while a handler of u is
\* suspended no handler of a later event of u has started.
C5_NoOverlap ==
    \A i \in DOMAIN tasks, j \in DOMAIN tasks :
        (i < j /\ Suspended(i)) => tasks[i].user # tasks[j].user

\* C6: in the Tester every text whose handler finds the user's reporting flag
\* set is treated as the issue description, whatever the text: the transcript
\* and the model info are handed to the Issue Reporter, the flag is cleared and
\* the confirmation is sent.
C6_ReportingStep ==
    \A i \in DOMAIN tasks :
        (/\ iface = "tester" /\ Resumed(i) /\ tasks[i].pc = "typing"
         /\ tasks[i].kind = "text" /\ tasks[i].user \in reporting_users)
        => /\ After(i).reports = <<IssueReport(tasks[i])>>
           /\ tasks[i].user \notin reporting_users'
           /\ After(i).out = Msg("confirmation")
C6_ReportingTextIsDescription == [][C6_ReportingStep]_vars

\* C7: a turn that submits an issue calls the Issue Reporter exactly once with
\* the text as description and ends in a full reset: the user's transcript is
\* empty and the user is not reporting.
C7_ReportThenReset ==
    \A i \in DOMAIN tasks :
        (iface = "tester" /\ Returned(i) /\ tasks[i].reports # <<>>) =>
            LET t == tasks[i] IN
            /\ Len(t.reports) = 1
            /\ t.reports[1].issue_details = t.text
            /\ TranscriptOf(t.user) = <<>>
            /\ t.user \notin reporting_users

\* C8: a handler whose orchestrator callback raised on a text turn has sent
\* exactly one message, the localized generic error; one whose callback raised
\* on a delete_all_history turn has sent no message.
C8_OneErrorMessage ==
    \A i \in DOMAIN tasks :
        (Returned(i) /\ tasks[i].cb = "raise") =>
            LET t == tasks[i] IN
            /\ LastCall(t) \in {"text_message", "text"} => t.msgs = <<ErrorMsg(t.user)>>
            /\ LastCall(t) = "delete_all_history" => t.msgs = <<>>
C8_Witness ==
    \E i \in DOMAIN tasks :
        /\ iface = "tester" /\ Returned(i) /\ tasks[i].cb = "raise"
        /\ LastCall(tasks[i]) = "text_message"
        /\ tasks[i].msgs = <<Loc("error", "ru")>>

\* C9 as stated: after a callback failure on any content turn (text, image,
\* document, audio) the generic error message has been sent.
ContentTypesForwarded == {"text_message", "image_message", "document_message", "audio_message"}
C10_UnsupportedNotice ==
    \A i \in DOMAIN tasks :
        (Returned(i) /\ IsUnsupported(tasks[i])) =>
            /\ Len(tasks[i].msgs) = 1
            /\ tasks[i].msgs[1].key = "unsupported_content"
            /\ ~HasKey(tasks[i].msgs, "error")

\* C11: a handler of unsupported content (a document outside the MIME
\* allow-list, a content kind the interface does not handle) never fetches an
\* attachment and never calls the orchestrator, and none of its steps changes
\* the user's state, reporting flag or selected model.
C11_Unsupported(t) ==
    \/ iface = "tester" /\ (t.kind = "sticker"
                            \/ (t.kind = "document" /\ t.arg \notin SUPPORTED_DOCUMENT_MIMES))
    \/ iface = "showcase" /\ t.kind \in {"document", "sticker"}
    \/ iface = "view" /\ t.kind \notin {"text", "start"}
C11_SessionKept(u) ==
    /\ user_states'[u] = user_states[u]
    /\ (u \in reporting_users') = (u \in reporting_users)
    /\ user_model_preferences'[u] = user_model_preferences[u]
C11_FrameStep ==
    /\ (Spawned /\ C11_Unsupported(tasks'[Len(tasks')])) =>
           C11_SessionKept(tasks'[Len(tasks')].user)
    /\ \A i \in DOMAIN tasks :
           (Resumed(i) /\ C11_Unsupported(tasks[i])) => C11_SessionKept(tasks[i].user)
C11_NoFetchNoCall ==
    \A i \in DOMAIN tasks :
        C11_Unsupported(tasks[i]) =>
            /\ tasks[i].calls = <<>>
            /\ tasks[i].pc \notin {"fetch", "cb_text", "cb_content", "cb_start", "cb_delete"}
C11_UnsupportedIsInert == [][C11_FrameStep]_vars /\ []C11_NoFetchNoCall
C11_Witness ==
    \E i \in DOMAIN tasks :
        /\ iface = "tester" /\ Returned(i)
        /\ tasks[i].kind = "document" /\ tasks[i].arg = "image/gif"
        /\ tasks[i].calls = <<>> /\ Len(tasks[i].msgs) = 1

\* C12 as stated: in the Tester a text equal to a command token (report issue,
\* select model, start new chat), handled while the user is not reporting, is
\* never forwarded as a text turn: report-issue sets the reporting flag and
\* sends the prompt, select-model sends the model options, both without a
\* request to the orchestrator.
C12_CommandTurn(i) ==
    /\ iface = "tester" /\ Resumed(i) /\ tasks[i].pc = "typing"
    /\ tasks[i].kind = "text" /\ tasks[i].user \notin reporting_users
    /\ tasks[i].text \in {REPORT_ISSUE, SELECT_MODEL, START_NEW_CHAT}
C12_ReportIssueStep(i) ==
    tasks[i].text = REPORT_ISSUE =>
        /\ tasks[i].user \in reporting_users'
        /\ After(i).out = Msg("report_prompt")
        /\ After(i).calls = <<>>
C12_SelectModelStep(i) ==
    /\ After(i).out = Msg("model_prompt")
    /\ After(i).calls = <<>>
C12_CommandsStep ==
    \A i \in DOMAIN tasks :
        C12_CommandTurn(i) =>
            /\ LastCall(After(i)) # "text_message"
            /\ C12_ReportIssueStep(i)
            /\ tasks[i].text = SELECT_MODEL => C12_SelectModelStep(i)
C12_CommandsShortCircuit == [][C12_CommandsStep]_vars
\* C12 amended: the select-model text is a command only when the model
\* selector is enabled (show_model_selector); with the selector disabled it
\* is an ordinary text and is forwarded as a text turn. The report-issue and
\* start-new-chat texts are always commands.
C12_SelectorStep ==
    \A i \in DOMAIN tasks :
        C12_CommandTurn(i) =>
            /\ (tasks[i].text # SELECT_MODEL \/ show_model_selector) =>
                   LastCall(After(i)) # "text_message"
            /\ C12_ReportIssueStep(i)
            /\ (tasks[i].text = SELECT_MODEL /\ show_model_selector) => C12_SelectModelStep(i)
            /\ (tasks[i].text = SELECT_MODEL /\ ~show_model_selector) =>
                   /\ LastCall(After(i)) = "text_message"
                   /\ After(i).calls[1].data = SELECT_MODEL
C12_CommandsWhenEnabled == [][C12_SelectorStep]_vars
C12_Witness ==
    \E i \in DOMAIN tasks :
        /\ iface = "tester" /\ show_model_selector /\ Returned(i)
        /\ tasks[i].text = SELECT_MODEL
        /\ tasks[i].msgs = <<Msg("model_prompt")>> /\ tasks[i].calls = <<>>

\* C13: the handler of an event calls the orchestrator at most once, and
\* exactly once when the event is a forwarded turn (start, delete_all_history,
\* an ordinary text of a user who is not reporting, an attachment that was
\* resolved); once the callback has returned or raised, the handler makes no
\* further call.
C13_OrdinaryText(t) ==
    /\ t.kind = "text"
    /\ \/ /\ iface = "tester"
          /\ t.text \notin {START_NEW_CHAT, REPORT_ISSUE}
          /\ ~(t.text = SELECT_MODEL /\ show_model_selector)
          /\ t.user \notin reporting_users
       \/ iface = "showcase" /\ t.text # START_NEW_CHAT
C13_InCallback(t) == t.pc \in {"cb_text", "cb_content", "cb_start", "cb_delete"}
C13_ForwardStep ==
    /\ (Spawned /\ tasks'[Len(tasks')].kind \in {"start", "delete_all_history"}) =>
           (Len(tasks'[Len(tasks')].calls) = 1 /\ C13_InCallback(tasks'[Len(tasks')]))
    /\ \A i \in DOMAIN tasks :
           Resumed(i) =>
               /\ (tasks[i].pc = "typing" /\ (C13_OrdinaryText(tasks[i]) \/ IsStart(tasks[i]))
                   /\ iface \in {"tester", "showcase"}) =>
                      (Len(After(i).calls) = 1 /\ C13_InCallback(After(i)))
               /\ tasks[i].pc = "fetch" =>
                      \/ Len(After(i).calls) = 1 /\ After(i).pc = "cb_content"
                      \/ After(i).calls = <<>> /\ After(i).pc = "done"
               /\ tasks[i].cb # "none" => After(i).calls = tasks[i].calls
C13_AtMostOnce ==
    \A i \in DOMAIN tasks :
        /\ Len(tasks[i].calls) <= 1
        /\ (C13_InCallback(tasks[i]) \/ tasks[i].cb \in {"ok", "raise"}) => Len(tasks[i].calls) = 1
C14_SinkFailed(t) == t.sink \in {"no_table", "append_fails"}
C14_SubmissionStep ==
    \A i \in DOMAIN tasks :
        (iface = "tester" /\ Resumed(i)) =>
            /\ (tasks[i].sink = "none" /\ C14_SinkFailed(After(i))) =>
                   /\ tasks[i].user \notin reporting_users'
                   /\ After(i).out = Msg("confirmation")
                   /\ After(i).pc = "send_confirmation"
                   /\ issues_table' = issues_table
            /\ (tasks[i].pc = "send_confirmation" /\ C14_SinkFailed(tasks[i])) =>
                   /\ chat_history' = <<>>
                   /\ tasks[i].user \notin reporting_users'
                   /\ After(i).msgs = <<Msg("confirmation")>>
                   /\ LastCall(After(i)) = "start_command"
C14_SubmissionReturn ==
    \A i \in DOMAIN tasks :
        (iface = "tester" /\ Returned(i) /\ C14_SinkFailed(tasks[i])) =>
            /\ Len(tasks[i].msgs) = 2
            /\ tasks[i].msgs[1] = Msg("confirmation")
            /\ tasks[i].msgs[2].key = "title"
            /\ Len(tasks[i].calls) = 1
C14_SinkFailureIsHarmless == [][C14_SubmissionStep]_vars /\ []C14_SubmissionReturn
C14_Witness ==
    \E i \in DOMAIN tasks :
        /\ iface = "tester" /\ Returned(i) /\ tasks[i].sink = "append_fails"
        /\ Len(tasks[i].msgs) = 2 /\ issues_table = <<>>

\* C15: in an issue-submission turn the record is written (or the write has
\* failed) in the step that takes the transcript, before the handler goes on
\* to the confirmation and the reset: the thread written is the transcript as
\* it was when it was taken, and no step that writes a record or takes the
\* transcript changes the transcript.
C15_Taken(i) == tasks[i].reports = <<>> /\ After(i).reports # <<>>
C15_WriteStep ==
    /\ issues_table' # issues_table =>
           \E i \in DOMAIN tasks :
               /\ Resumed(i) /\ C15_Taken(i) /\ After(i).sink = "ok"
               /\ issues_table' = Append(issues_table,
                                         <<"current_time",
                                           format_model_info(get_current_model_info(tasks[i].user)),
                                           format_chat_history(chat_history),
                                           tasks[i].text>>)
    /\ \A i \in DOMAIN tasks :
           Resumed(i) =>
               /\ C15_Taken(i) =>
                      /\ After(i).sink # "none"
                      /\ After(i).reports[1].chat_history = chat_history
                      /\ chat_history' = chat_history
                      /\ After(i).sink = "ok" => issues_table' # issues_table
               /\ tasks[i].pc = "send_confirmation" => tasks[i].sink # "none"
C15_WrittenBeforeReset == [][C15_WriteStep]_vars
C15_Witness ==
    \E i \in DOMAIN tasks :
        /\ iface = "tester" /\ Returned(i) /\ tasks[i].sink = "ok"
        /\ Len(issues_table) = 1 /\ issues_table[1][3] # <<>>
        /\ issues_table[1][4] = tasks[i].text
        /\ TranscriptOf(tasks[i].user) # SelectSeq(tasks[i].reports[1].chat_history,
                                                    LAMBDA e : e.uid = tasks[i].user)

\* C16: when the resolution of an attachment fails the turn is dropped: the
\* handler returns without a request to the orchestrator and without a
\* message to the user, and none of its steps changes the transcript, a
\* user's state or the reporting flags.
C16_Untouched ==
    /\ chat_history' = chat_history
    /\ reporting_users' = reporting_users
    /\ user_states' = user_states
C16_DropStep ==
    /\ (Spawned /\ tasks'[Len(tasks')].kind \in AttachmentKinds) => C16_Untouched
    /\ \A i \in DOMAIN tasks :
           (/\ Resumed(i) /\ After(i).fetch # "ok"
            /\ After(i).pc = "fetch" \/ tasks[i].pc = "fetch") =>
               /\ C16_Untouched
               /\ After(i).calls = <<>> /\ After(i).msgs = <<>> /\ After(i).out = Msg("-")
               /\ tasks[i].pc = "fetch" => (After(i).fetch = "failed" /\ After(i).pc = "done")
C16_DroppedReturn ==
    \A i \in DOMAIN tasks :
        tasks[i].fetch = "failed" =>
            /\ Returned(i) /\ tasks[i].calls = <<>> /\ tasks[i].msgs = <<>>
            /\ tasks[i].cb = "none"
C16_FailedFetchIsDropped == [][C16_DropStep]_vars /\ []C16_DroppedReturn
C16_Witness ==
    \E i \in DOMAIN tasks :
        /\ iface = "tester" /\ Returned(i) /\ tasks[i].kind = "document"
        /\ tasks[i].fetch = "failed" /\ tasks[i].msgs = <<>> /\ tasks[i].calls = <<>>

\* C17: when the history-deletion call made by start raises, the handler of
\* start still returns with the user's state WAITING_FOR_DESCRIPTION (View),
\* the user's transcript empty and the user not reporting (interfaces), having
\* sent the welcome message and no error message.
C17_StartSurvivesFailure ==
    \A i \in DOMAIN tasks :
        (Returned(i) /\ IsStart(tasks[i]) /\ tasks[i].cb = "raise") =>
            LET t == tasks[i] IN
            /\ iface = "view" => user_states[t.user] = WAITING_FOR_DESCRIPTION
            /\ iface # "view" => (TranscriptOf(t.user) = <<>> /\ t.user \notin reporting_users)
            /\ Len(t.msgs) = 1 /\ t.msgs[1].key \in {"title", "welcome"}
            /\ ~HasKey(t.msgs, "error")

\* C18: no error escapes the handler of an event: whatever collaborator fails
\* (orchestrator callback, attachment fetch, message send, typing indicator,
\* message catalog), every handler ends without raising.
C18_NoErrorEscapes ==
    \A i \in DOMAIN tasks : tasks[i].raised = "none"

\* C19: a reply the orchestrator hands to send_message is sent and appended to
\* the transcript exactly once with the type "ai"; a reply whose send fails is
\* not appended; an empty reply performs no send at all.
C19_Sent(i, m) == After(i).msgs = Append(tasks[i].msgs, m)
C19_Attempted(i, m) == After(i).failed = Append(tasks[i].failed, m)
C19_ReplyStep ==
    \A i \in DOMAIN tasks :
        (/\ iface \in {"tester", "showcase"} /\ Resumed(i)
         /\ tasks[i].pc \in {"cb_text", "cb_content"}) =>
            /\ \A m \in Replies :
                   /\ C19_Sent(i, m) => chat_history' = Append(chat_history, Entry("ai", m, tasks[i].user))
                   /\ C19_Attempted(i, m) => chat_history' = chat_history
            /\ ~C19_Sent(i, Msg("")) /\ ~C19_Attempted(i, Msg(""))
C19_ReplyDelivery == [][C19_ReplyStep]_vars

\* C20: every request the Tester interface forwards for user u carries u's
\* selected model as it is when the request is built: the model of u's last
\* model-selection acknowledgment, or no model if u never selected one. The
\* selection of u changes only by a model-selection acknowledgment of u, so
\* one user's selection never appears in another user's request.
C20_Carries(t, k) ==
    /\ t.calls[k].user_id = t.user
    /\ t.calls[k].model = user_model_preferences[t.user]
C20_RequestStep ==
    /\ Spawned => \A k \in DOMAIN tasks'[Len(tasks')].calls : C20_Carries(tasks'[Len(tasks')], k)
    /\ \A i \in DOMAIN tasks :
           Resumed(i) =>
               /\ SubSeq(After(i).calls, 1, Len(tasks[i].calls)) = tasks[i].calls
               /\ \A k \in DOMAIN After(i).calls \ DOMAIN tasks[i].calls : C20_Carries(After(i), k)
C20_SelectionStep ==
    \A u \in Users :
        user_model_preferences'[u] # user_model_preferences[u] =>
            /\ Spawned
            /\ tasks'[Len(tasks')].kind = "select_model"
            /\ tasks'[Len(tasks')].user = u
            /\ tasks'[Len(tasks')].arg = user_model_preferences'[u]
            /\ tasks'[Len(tasks')].calls = <<>>
C20_RequestCarriesSelection ==
    [][iface = "tester" => (C20_RequestStep /\ C20_SelectionStep)]_vars
C20_Witness ==
    /\ iface = "tester"
    /\ \E i \in DOMAIN tasks, u \in Users :
           /\ tasks[i].kind = "text" /\ tasks[i].user = u
           /\ Len(tasks[i].calls) = 1
           /\ tasks[i].calls[1].model \in Models
           /\ tasks[i].calls[1].model = user_model_preferences[u]
           /\ \A b \in Users \ {u} : user_model_preferences[b] = None

\* C21: a model-selection acknowledgment of user u stores the chosen model as
\* u's selected model and changes nothing else: the transcript, the reporting
\* flags, the selections of the other users and the issue worksheet are
\* unchanged in every step of its handler, and the handler makes no request to
\* the orchestrator.
C21_RestUnchanged ==
    /\ chat_history' = chat_history
    /\ reporting_users' = reporting_users
    /\ issues_table' = issues_table
    /\ user_states' = user_states /\ db' = db
C21_SelectionStep ==
    /\ (Spawned /\ tasks'[Len(tasks')].kind = "select_model") =>
           /\ user_model_preferences' =
                  [user_model_preferences EXCEPT ![tasks'[Len(tasks')].user] = tasks'[Len(tasks')].arg]
           /\ tasks'[Len(tasks')].calls = <<>>
           /\ C21_RestUnchanged
    /\ \A i \in DOMAIN tasks :
           (Resumed(i) /\ tasks[i].kind = "select_model") =>
               /\ user_model_preferences' = user_model_preferences
               /\ After(i).calls = <<>>
               /\ C21_RestUnchanged
C21_SelectionOnlyStoresModel == [][C21_SelectionStep]_vars
C21_Witness ==
    \E i \in DOMAIN tasks :
        /\ Returned(i) /\ tasks[i].kind = "select_model"
        /\ user_model_preferences[tasks[i].user] = tasks[i].arg
        /\ chat_history # <<>>
        /\ Len(tasks[i].msgs) = 2

\* C22: in the View, the handler of a non-text content received while the
\* user's state is WAITING_FOR_DESCRIPTION has sent the localized
\* unsupported-content notice, has made no orchestrator call and has left the
\* state WAITING_FOR_DESCRIPTION.
C22_NonTextWhileAwaitingContext ==
    \A i \in DOMAIN tasks :
        (/\ iface = "view" /\ Returned(i)
         /\ tasks[i].kind \notin {"text", "start"}
         /\ ViewStateOf(tasks[i].user) = WAITING_FOR_DESCRIPTION) =>
            /\ Len(tasks[i].msgs) = 1
            /\ tasks[i].msgs[1].key = "unsupported_content"
            /\ tasks[i].calls = <<>>

\* C23: the visible effects of one user's events follow the order of the
\* events: a handler sends a message, writes a transcript entry or changes the
\* session only while no handler of a later event of the same user has had a
\* visible effect (a message sent, or its text written to the transcript on
\* receipt); and in the transcript the reply to a forwarded text follows that
\* text directly or after the entries of other users only.
C23_HadEffect(t) ==
    \/ t.msgs # <<>>
    \/ iface \in {"tester", "showcase"} /\ t.kind = "text"
C23_Effect(i) ==
    \/ After(i).msgs # tasks[i].msgs
    \/ chat_history' # chat_history
    \/ reporting_users' # reporting_users
    \/ user_states' # user_states
C23_OrderStep ==
    \A i \in DOMAIN tasks, j \in DOMAIN tasks :
        (/\ Resumed(i) /\ C23_Effect(i)
         /\ i < j /\ tasks[j].user = tasks[i].user) => ~C23_HadEffect(tasks[j])
C23_EffectsInEventOrder == [][C23_OrderStep]_vars

\* C24: the blocking I/O of a turn is a suspension point, so that the events of
\* other users are handled meanwhile: the step that starts an attachment
\* fetch, an orchestrator callback or the write of an issue report to the sink
\* leaves the handler suspended in that operation, with the result of the
\* operation not yet there.
C24_InCallback(t) == t.pc \in {"cb_text", "cb_content", "cb_start", "cb_delete"} /\ t.cb = "none"
C24_SuspensionStep ==
    \A i \in DOMAIN tasks :
        Resumed(i) =>
            /\ (tasks[i].pc = "typing" /\ tasks[i].kind \in AttachmentKinds /\ After(i).calls = <<>>
                /\ After(i).out = Msg("-") /\ After(i).pc # "done") =>
                   (After(i).pc = "fetch" /\ After(i).fetch = "none")
            /\ Len(After(i).calls) > Len(tasks[i].calls) => C24_InCallback(After(i))
            /\ Len(After(i).reports) > Len(tasks[i].reports) =>
                   /\ After(i).sink = "none"
                   /\ After(i).out = Msg("-")
                   /\ issues_table' = issues_table
C24_BlockingIOIsSuspended == [][C24_SuspensionStep]_vars

\* C25: every turn terminates: whatever the orchestrator callback and the
\* attachment I/O do, every handler eventually completes, so that eventually
\* no handler is left suspended.
C25_EveryTurnTerminates == <>[](Live(tasks) = <<>>)

\* C26: get_message returns a text for every key a handler requests (welcome,
\* description_accepted, error, unsupported_content) and every language code:
\* the text of the mapped language when that language has the key, otherwise
\* the English text; it never fails with KeyError.
C26_LanguageCodes == {"en", "ru", "he", "iw", "fr"}
C26_RequestedKeys(t) ==
    {"error"}
    \cup (IF iface = "view" THEN {"welcome", "description_accepted"} ELSE {})
    \cup (IF IsUnsupported(t) THEN {"unsupported_content"} ELSE {})
C26_Text(key, code) ==
    /\ get_message(key, code) # KeyError
    /\ get_message(key, code).key = key
    /\ get_message(key, code).lang =
           (IF key \in MESSAGES[language_mapping(code)] THEN language_mapping(code) ELSE "en")
C26_CatalogIsTotal ==
    \A i \in DOMAIN tasks : \A key \in C26_RequestedKeys(tasks[i]) :
        /\ C26_Text(key, language_code(tasks[i].user))
        /\ \A code \in C26_LanguageCodes : C26_Text(key, code)

\* C27: the payload of a forwarded attachment follows the strategy order: the
\* stored URL when object storage is enabled and reachable, otherwise a
\* time-limited URL when the kind supports direct linking, otherwise the inline
\* base64 bytes. Whatever the storage, an attachment of a kind that supports
\* direct linking is therefore forwarded as a URL, and each attachment is
\* forwarded with exactly one payload.
C27_IsAttachmentCall(c) == c.type \in {"image_message", "document_message", "audio_message"}
C27_StrategyOrder ==
    \A i \in DOMAIN tasks :
        /\ Len(SelectSeq(tasks[i].calls, C27_IsAttachmentCall)) <= 1
        /\ \A k \in DOMAIN tasks[i].calls :
               C27_IsAttachmentCall(tasks[i].calls[k]) =>
                   IF tasks[i].kind \in DirectLinkKinds
                   THEN tasks[i].calls[k].data \in {"stored_url", "url"}
                   ELSE tasks[i].calls[k].data \in {"stored_url", "base64"}

\* C28: an image resolved with the URL strategy is forwarded as the image turn
\* with a URL payload (the image bytes are not downloaded), with its caption,
\* and with a mime_type that is a string, the one of the source descriptor
\* when the descriptor has one.
C28_ImageTurn ==
    \A i \in DOMAIN tasks :
        (/\ iface \in {"tester", "showcase"}
         /\ tasks[i].kind = "photo" /\ tasks[i].fetch = "ok") =>
            /\ Len(tasks[i].calls) = 1
            /\ tasks[i].calls[1].type = "image_message"
            /\ tasks[i].calls[1].data = image_data(tasks[i]).image
            /\ tasks[i].calls[1].data = "url"
            /\ tasks[i].calls[1].caption = image_data(tasks[i]).caption
            /\ "mime_type" \in DOMAIN image_data(tasks[i])
            /\ image_data(tasks[i]).mime_type # None
            /\ tasks[i].arg # None => image_data(tasks[i]).mime_type = tasks[i].arg

\* C29 as stated: the handler of every content event (a forwarded text turn, an
\* attachment, an unsupported content) has sent exactly one message, which is
\* a reply, the localized unsupported-content notice or the localized generic
\* error notice.
C29_ContentTurn(t) ==
    \/ t.kind \in AttachmentKinds \cup {"sticker"}
    \/ t.kind = "text" /\ LastCall(t) \in {"text_message", "text"}
C29_Notice(m, u) ==
    /\ m.key \in {"error", "unsupported_content"}
    /\ m = get_message(m.key, language_code(u))
C29_Visible(t) == \A k \in DOMAIN t.msgs : t.msgs[k] = Msg("reply") \/ C29_Notice(t.msgs[k], t.user)
C29_Notices(t) == SelectSeq(t.msgs, LAMBDA m : m # Msg("reply"))
C29_NoticeDue(t) ==
    \/ t.cb = "raise" /\ LastCall(t) \in {"text_message", "text"}
    \/ IsUnsupported(t)
C30_Role(e) == IF e.type = "user" THEN "User: " ELSE "AI: "
C30_Submitted == tasks' # tasks /\ tasks' # <<>> /\ tasks'[1].reports # <<>>
C30_Record(t) ==
    <<"current_time", format_model_info(t.reports[1].model_info),
      format_chat_history(t.reports[1].chat_history), t.reports[1].issue_details>>
C30_LinePerEntryStep ==
    C30_Submitted =>
        LET t == tasks'[1]
            h == t.reports[1].chat_history
            thread == format_chat_history(h)
        IN  /\ Len(thread) = Len(h)
            /\ \A k \in DOMAIN h : thread[k] = [prefix |-> C30_Role(h[k]), content |-> h[k].message]
            /\ issues_table' = IF t.sink = "no_table" THEN issues_table
                               ELSE Append(issues_table, C30_Record(t))
C30_LinePerEntry == [][C30_LinePerEntryStep]_vars
\* C30 amended: the rendering holds the entries in transcript order, each as
\* the lines of its text, the first of them after "User: " or "AI: " and the
\* following ones without a prefix: n entries give n prefixed lines and as
\* many lines as their texts have. One record with the four cells in order is
\* written when the sink accepts it, none when the sink cannot be opened or
\* the append fails.
C30_Prefixed(thread) == SelectSeq(thread, LAMBDA l : l.prefix # "")
RECURSIVE C30_LineCount(_)
C30_LineCount(h) == IF h = <<>> THEN 0 ELSE Len(TextLines(Head(h).message)) + C30_LineCount(Tail(h))
C30_RenderingStep ==
    C30_Submitted =>
        LET t == tasks'[1]
            h == t.reports[1].chat_history
            thread == format_chat_history(h)
        IN  /\ h = chat_history
            /\ Len(thread) = C30_LineCount(h)
            /\ C30_Prefixed(thread) =
                   [k \in 1..Len(h) |-> [prefix |-> C30_Role(h[k]), content |-> TextLines(h[k].message)[1]]]
            /\ issues_table' = IF t.sink = "ok" THEN Append(issues_table, C30_Record(t))
                               ELSE issues_table
            /\ t.sink = "ok" => /\ Len(issues_table'[Len(issues_table')]) = 4
                                /\ issues_table'[Len(issues_table')][3] = thread
                                /\ issues_table'[Len(issues_table')][4] = t.text
C30_RenderingAndRecord == [][C30_RenderingStep]_vars
C30_Witness ==
    /\ Len(issues_table) = 1 /\ Len(chat_history) = 3
    /\ Len(issues_table[1][3]) = 5
    /\ chat_history[1].type = "ai" /\ chat_history[2].type = "user"
    /\ tasks # <<>> /\ tasks[1].sink = "ok"

\* C31: in the View, once the context text of a user has been accepted (the
\* user's state is CHATTING), the stored context is found on the next turn:
\* the next text of the user is forwarded to the orchestrator, for every user
\* including one who never sent /start; it is not answered with the welcome
\* message and the user does not go back to WAITING_FOR_DESCRIPTION.
C31_NextTurnStep ==
    \A i \in DOMAIN tasks :
        (/\ iface = "view" /\ Resumed(i) /\ tasks[i].pc = "typing"
         /\ tasks[i].kind = "text" /\ user_states[tasks[i].user] = CHATTING)
        => /\ After(i).pc = "cb_text"
           /\ After(i).calls = <<ViewRequest(tasks[i].user, "text", tasks[i].text)>>
           /\ After(i).out.key # "welcome"
           /\ user_states'[tasks[i].user] = CHATTING
C31_AcceptedContextIsFound == [][C31_NextTurnStep]_vars

\* C32: in the Tester one report-issue command leads to at most one issue
\* submission. Of the texts of a reporting user that interleave, exactly one is
\* handed to the Issue Reporter: the first whose handler finds the flag is
\* handed over and removes the flag in the same step, so the others do not
\* find it; the flag is removed by a submission only for a user who is
\* reporting, and is set only by the report-issue command.
C32_Submits(i) == Resumed(i) /\ tasks[i].reports = <<>> /\ After(i).reports # <<>>
C32_SubmissionStep ==
    \A i \in DOMAIN tasks :
        /\ (/\ Resumed(i) /\ tasks[i].pc = "typing" /\ tasks[i].kind = "text"
            /\ tasks[i].user \in reporting_users)
           => (C32_Submits(i) /\ tasks[i].user \notin reporting_users')
        /\ C32_Submits(i) =>
               /\ tasks[i].user \in reporting_users
               /\ tasks[i].user \notin reporting_users'
               /\ Len(After(i).reports) = 1
        /\ \A u \in Users :
               (Resumed(i) /\ u \notin reporting_users /\ u \in reporting_users') =>
                   (tasks[i].user = u /\ tasks[i].text = REPORT_ISSUE /\ ~C32_Submits(i))
C32_NoStrayFlag == Spawned => reporting_users' \subseteq reporting_users
C32_OneSubmissionPerReport == [][C32_SubmissionStep /\ C32_NoStrayFlag]_vars

\* C33: in the Tester the reporting flag of a user changes in three ways only:
\* the report-issue command of the user sets it, an issue submission of the
\* user clears it, start of the user clears it. No step of the handler of an
\* attachment, of the select-model command, of a model selection, of
\* delete_all_history, of unsupported content or of a forwarded text turn
\* changes the flag of any user.
C33_Sets(i, u) ==
    /\ Resumed(i) /\ tasks[i].user = u /\ tasks[i].pc = "typing"
    /\ tasks[i].kind = "text" /\ tasks[i].text = REPORT_ISSUE
C33_Submits(i, u) ==
    Resumed(i) /\ tasks[i].user = u /\ tasks[i].reports = <<>> /\ After(i).reports # <<>>
C33_Starts(u) ==
    \/ Spawned /\ tasks'[Len(tasks')].user = u /\ tasks'[Len(tasks')].kind = "start"
    \/ \E i \in DOMAIN tasks :
           /\ Resumed(i) /\ tasks[i].user = u
           /\ tasks[i].calls = <<>> /\ LastCall(After(i)) = "start_command"
C33_Inert(t) ==
    \/ t.kind \in AttachmentKinds \cup {"sticker", "select_model", "delete_all_history"}
    \/ t.kind = "text" /\ t.text = SELECT_MODEL /\ show_model_selector
    \/ LastCall(t) = "text_message"
C33_FlagStep ==
    /\ iface = "tester" =>
           \A u \in Users :
               /\ (u \notin reporting_users /\ u \in reporting_users') =>
                      \E i \in DOMAIN tasks : C33_Sets(i, u)
               /\ (u \in reporting_users /\ u \notin reporting_users') =>
                      (C33_Starts(u) \/ \E i \in DOMAIN tasks : C33_Submits(i, u))
    /\ (Spawned /\ C33_Inert(tasks'[Len(tasks')])) => reporting_users' = reporting_users
    /\ \A i \in DOMAIN tasks :
           (Resumed(i) /\ C33_Inert(After(i))) => reporting_users' = reporting_users
C33_FlagChangesInThreeWays == [][C33_FlagStep]_vars
C33_Witness ==
    \E i \in DOMAIN tasks :
        /\ iface = "tester" /\ Returned(i) /\ tasks[i].kind = "photo"
        /\ LastCall(tasks[i]) = "image_message"
        /\ tasks[i].user \in reporting_users

\* C34: the handler of delete_all_history sends exactly one request to the
\* orchestrator, of type delete_all_history, and when it returns the transcript
\* is empty whether the callback returned or raised; it has sent no message to
\* the user, and none of its steps changes a reporting flag or a selected model.
C34_IsDelete(t) == t.kind = "delete_all_history"
C34_Return ==
    \A i \in DOMAIN tasks :
        (Returned(i) /\ C34_IsDelete(tasks[i])) =>
            /\ Len(tasks[i].calls) = 1
            /\ tasks[i].calls[1].type = "delete_all_history"
            /\ tasks[i].calls[1].user_id = tasks[i].user
            /\ tasks[i].cb \in {"ok", "raise"}
            /\ chat_history = <<>>
            /\ tasks[i].msgs = <<>> /\ tasks[i].out = Msg("-")
C34_InFlight ==
    \A i \in DOMAIN tasks :
        (Suspended(i) /\ C34_IsDelete(tasks[i])) =>
            /\ tasks[i].pc = "cb_delete"
            /\ Len(tasks[i].calls) = 1 /\ tasks[i].calls[1].type = "delete_all_history"
C34_FrameStep ==
    /\ (Spawned /\ C34_IsDelete(tasks'[Len(tasks')])) =>
           (reporting_users' = reporting_users /\ user_model_preferences' = user_model_preferences)
    /\ \A i \in DOMAIN tasks :
           (Resumed(i) /\ C34_IsDelete(tasks[i])) =>
               /\ reporting_users' = reporting_users
               /\ user_model_preferences' = user_model_preferences
               /\ After(i).pc = "done"
C34_DeleteAllHistory == [][C34_FrameStep]_vars /\ [](C34_Return /\ C34_InFlight)
C34_Witness ==
    \E i \in DOMAIN tasks :
        /\ iface = "tester" /\ Returned(i) /\ C34_IsDelete(tasks[i])
        /\ tasks[i].cb = "raise" /\ chat_history = <<>>
        /\ tasks[i].user \in reporting_users

\* C35: the selected model of a user survives every reset. It changes only in
\* the step that handles a model selection of that user, which stores the model
\* chosen; no step of start, of an issue submission or of delete_all_history
\* changes or clears it, and every request made for a user, the first one
\* after a reset included, carries the model the user has selected.
C35_Selects(u) ==
    /\ Spawned /\ tasks'[Len(tasks')].kind = "select_model" /\ tasks'[Len(tasks')].user = u
    /\ user_model_preferences'[u] = tasks'[Len(tasks')].arg
C35_NewCalls(before, after) ==
    {after.calls[k] : k \in (DOMAIN after.calls) \ (DOMAIN before.calls)}
C35_CarriesSelection(c) ==
    /\ c.model = user_model_preferences'[c.user_id]
    /\ c.model = user_model_preferences[c.user_id]
C35_Step ==
    /\ \A u \in Users :
           /\ user_model_preferences'[u] # user_model_preferences[u] => C35_Selects(u)
           /\ user_model_preferences[u] # None => user_model_preferences'[u] # None
    /\ Spawned => \A c \in C35_NewCalls(NewTask("ua", "text", None, "", None), tasks'[Len(tasks')]) :
                      C35_CarriesSelection(c)
    /\ \A i \in DOMAIN tasks :
           Resumed(i) => \A c \in C35_NewCalls(tasks[i], After(i)) : C35_CarriesSelection(c)
C35_SelectionSurvivesReset == [][C35_Step]_vars
C35_Witness ==
    /\ iface = "tester" /\ Len(tasks) = 1 /\ Returned(1)
    /\ tasks[1].user = "ua" /\ tasks[1].text = "hi"
    /\ tasks[1].calls = <<TesterMessageData("ua", "text_message", "hi", "")>>
    /\ tasks[1].calls[1].model = "m1"
    /\ Len(issues_table) = 1
    /\ Len(chat_history) >= 2
    /\ chat_history[1] = Entry("ai", [key |-> "title", lang |-> "-", arg |-> "m1"], "ua")

\* C36 as stated: on the common events the Showcase and the Tester (selector
\* disabled) are equivalent: from the same state the same event or step leads
\* both to the same state, hence to the same requests to the orchestrator, the
\* same transcript and the same message texts, and every message reaches the
\* user as the other interface sends it.
C36_SameStep ==
    /\ iface = "tester" => ShowcaseCommonStep
    /\ iface = "showcase" => TesterCommonStep
C36_SameMessages ==
    \A i \in DOMAIN tasks : \A k \in DOMAIN tasks[i].msgs :
        SentBy("tester", tasks[i].msgs[k]) = SentBy("showcase", tasks[i].msgs[k])
C36_InterfacesEquivalent == [][C36_SameStep]_vars /\ []C36_SameMessages
\* C36 amended: the requests, the transcript and the texts of the messages
\* are the same; a message the interface itself sends carries the keyboard of
\* the interface, which in the Tester has the Report Issue button beside
\* Start New Chat and in the Showcase only Start New Chat; the replies of the
\* orchestrator carry no keyboard in either.
C36_OwnKeyboards ==
    \A i \in DOMAIN tasks : \A k \in DOMAIN tasks[i].msgs :
        LET m == tasks[i].msgs[k] IN
        /\ SentBy("tester", m).text = SentBy("showcase", m).text
        /\ m = Msg("reply") =>
               (SentBy("tester", m).reply_markup = None /\ SentBy("showcase", m).reply_markup = None)
        /\ m # Msg("reply") =>
               /\ SentBy("tester", m).reply_markup = <<<<START_NEW_CHAT, REPORT_ISSUE>>>>
               /\ SentBy("showcase", m).reply_markup = <<<<START_NEW_CHAT>>>>
C36_EquivalentUpToKeyboard == [][C36_SameStep]_vars /\ []C36_OwnKeyboards
C36_Witness ==
    \E i \in DOMAIN tasks :
        /\ iface = "showcase" /\ Returned(i) /\ tasks[i].text = START_NEW_CHAT
        /\ tasks[i].calls = <<TesterMessageData(tasks[i].user, "start_command", None, "")>>
        /\ tasks[i].msgs = <<Msg("title")>>
        /\ chat_history = <<Entry("ai", Msg("title"), tasks[i].user)>>
        /\ nEvents = 2

\* C37: StateManager keeps the message history of each user in the order of
\* insertion: after any sequence of calls get_message_history(u) is exactly
\* the messages added for u since the last clear_message_history(u) or
\* reset_user(u), in the order added; clear_message_history(u) empties the
\* history of u and changes nothing else.
RECURSIVE C37_AddedSince(_, _)
C37_AddedSince(calls, u) ==
    IF calls = <<>> THEN <<>>
    ELSE LET c == calls[Len(calls)]
             earlier == C37_AddedSince(SubSeq(calls, 1, Len(calls) - 1), u)
         IN  IF c.user = u /\ c.op \in {"clear_message_history", "reset_user"} THEN <<>>
             ELSE IF c.user = u /\ c.op = "add_message"
             THEN Append(earlier, [role |-> c.role, content |-> c.content])
             ELSE earlier
C37_Ordered ==
    \A u \in Users : get_message_history(state_manager, u) = C37_AddedSince(sm_calls, u)
C37_ClearStep ==
    (sm_calls' # sm_calls /\ sm_calls'[Len(sm_calls')].op = "clear_message_history") =>
        LET u == sm_calls'[Len(sm_calls')].user IN
        /\ get_message_history(state_manager', u) = <<>>
        /\ \A v \in Users \ {u} :
               get_message_history(state_manager', v) = get_message_history(state_manager, v)
        /\ state_manager'.user_states = state_manager.user_states
        /\ state_manager'.business_descriptions = state_manager.business_descriptions
C37_HistoryInsertionOrdered == [][C37_ClearStep]_vars /\ []C37_Ordered
C37_Witness ==
    /\ Len(sm_calls) = 4
    /\ sm_calls[1] = Call("add_message", "ua", "user", "hi")
    /\ sm_calls[2] = Call("clear_message_history", "ua", "-", "-")
    /\ get_message_history(state_manager, "ua") =
           <<[role |-> "assistant", content |-> "reply"], [role |-> "user", content |-> "hi"]>>

\* C38: reset_user(u) returns u to the defaults of a user never seen: after
\* it get_state(u) is WAITING_FOR_DESCRIPTION, get_description(u) is None and
\* get_message_history(u) is empty, and u has no key in any dictionary; the
\* state, description and history of every other user are unchanged;
\* resetting twice is resetting once, and a user with no session is reset
\* without an error, the manager left as it was.
C38_NoSession(sm, u) ==
    /\ u \notin DOMAIN sm.user_states
    /\ u \notin DOMAIN sm.business_descriptions
    /\ u \notin DOMAIN sm.message_history
C38_ResetStep ==
    (sm_calls' # sm_calls /\ sm_calls'[Len(sm_calls')].op = "reset_user") =>
        LET u == sm_calls'[Len(sm_calls')].user IN
        /\ get_state(state_manager', u) = WAITING_FOR_DESCRIPTION
        /\ get_description(state_manager', u) = None
        /\ get_message_history(state_manager', u) = <<>>
        /\ C38_NoSession(state_manager', u)
        /\ \A v \in Users \ {u} :
               /\ get_state(state_manager', v) = get_state(state_manager, v)
               /\ get_description(state_manager', v) = get_description(state_manager, v)
               /\ get_message_history(state_manager', v) = get_message_history(state_manager, v)
               /\ C38_NoSession(state_manager', v) = C38_NoSession(state_manager, v)
        /\ C38_NoSession(state_manager, u) => state_manager' = state_manager
C38_Idempotent ==
    \A u \in Users :
        reset_user(reset_user(state_manager, u), u) = reset_user(state_manager, u)
C38_ResetReturnsToDefaults == [][C38_ResetStep]_vars /\ []C38_Idempotent
C38_Witness ==
    /\ Len(sm_calls) = 4
    /\ sm_calls[1] = Call("set_state", "ua", "-", "chatting")
    /\ sm_calls[2] = Call("add_message", "ua", "user", "hi")
    /\ sm_calls[3] = Call("add_message", "ub", "user", "hi")
    /\ sm_calls[4] = Call("reset_user", "ua", "-", "-")
    /\ get_state(state_manager, "ua") = WAITING_FOR_DESCRIPTION
    /\ get_message_history(state_manager, "ub") = <<[role |-> "user", content |-> "hi"]>>

\* C39: in the View a session is created lazily from the users table: the
\* handler of the first event of a user without a session in memory leaves the
\* user with one, treating the event as in CHATTING if and only if a non-empty
\* description is stored for the user, else as in WAITING_FOR_DESCRIPTION.
\* After a restart a user whose last action was /start (an empty description
\* is stored) is in WAITING_FOR_DESCRIPTION, one who supplied the context
\* after /start is in CHATTING.
C39_LazyStep ==
    \A i \in DOMAIN tasks :
        (/\ iface = "view" /\ Resumed(i) /\ tasks[i].pc = "typing"
         /\ user_states[tasks[i].user] = "absent")
        => LET u == tasks[i].user IN
           /\ ViewStateOf(u) = CHATTING <=> db[u] \notin {"norow", ""}
           /\ db[u] = "" => ViewStateOf(u) = WAITING_FOR_DESCRIPTION
           /\ ViewStateOf(u) = CHATTING =>
                  (user_states'[u] = CHATTING /\ After(i).pc = "cb_text")
           /\ ViewStateOf(u) = WAITING_FOR_DESCRIPTION =>
                  (After(i).pc = "send_ack" /\ After(i).calls = <<>>)
C39_SessionCreated ==
    \A i \in DOMAIN tasks :
        (iface = "view" /\ Returned(i)) => user_states[tasks[i].user] # "absent"
C39_LazySession == [][C39_LazyStep]_vars /\ []C39_SessionCreated

====
